---- MODULE Spec2Model ----
(***************************************************************************)
(* A model of obsidian-scribe's ingestion core: the QueueManager           *)
(* (src/src/watcher/queue_manager.py), the watcher and the AudioProcessor  *)
(* threads, and the StateManager.                                          *)
(***************************************************************************)
EXTENDS Integers, Sequences, FiniteSets, Bags, TLC

\* ------------------------------------------------------------ bounds
\* The file paths of the watched folder.
Paths == {"a.wav", "b.wav"}
\* The threads that call get_next_file: FileWatcher._queue_thread is the only
\* caller in the repository (file_watcher.py:138).
Getters == {"queue_thread"}
\* The queue holds at most this many QueueItems.
MaxQueue == 2
\* The clock read by time.time() takes the values 0..MaxClock.
MaxClock == 1
\* A path's failure counter is followed up to this value.
MaxFails == 3
\* SpecQF: the longest queue and the most failures counted for one path.
MaxFrameQueue == 2
MaxFrameFails == 1
\* The priorities callers pass to add_file: -st_mtime (event_handler.py:139)
\* and the default 0.0 (file_watcher.py:122).
AddPriorities == {-1, 0}
\* The priorities add_file can be called with: -st_mtime of a recent file, the
\* default, and -st_mtime of a file dated before the epoch (any float passes).
CallerPriorities == {-1, 0, 200}
\* The paths whose dequeue order is followed.
OrderPaths == {"a.wav", "b.wav", "c.wav"}
\* The queue whose dequeue order is followed holds at most this many items.
MaxOrderQueue == 3

\* The threads that call the StateManager.
StThreads == {"main", "worker"}
\* processing_history holds at most this many rows.
MaxHistory == 4
\* The counters of processing_stats are followed up to this sum.
MaxStats == 1
UpdateStates == {"diarizing", "failed"}
MaxProcessQueue == 2
MaxFailedQueue == 2
\* The recordings that turn up in the watch folder, and how often the program
\* is started.
Recordings == {"a.wav"}
MaxStarts == 2
MaxSize == 2               \* a file has a size in 1..MaxSize
MaxSpeakerSegments == 2        \* the diarizer's list has at most so many segments
MaxTranscriptionSegments == 3  \* the transcriber's list has at most so many segments
MaxChunks == 2                 \* a file is cut into at most so many chunks
MaxRetriesArg == 2             \* retry_with_backoff is given max_retries up to this
MaxDelay == 3                  \* initial_delay and max_delay are in 1..MaxDelay
MaxMemoryItems == 2            \* cache.max_memory_items is in 1..MaxMemoryItems
MaxTtl == 1                    \* cache.ttl_seconds is in 1..MaxTtl
MaxCacheClock == 2             \* the cache's clock takes the values 0..MaxCacheClock
Times == 0..2              \* where a generated segment starts and ends
Speakers == {"A", "B"}     \* the speakers the diarizer names

\* mark_failed's default max_retries.
DefaultMaxRetries == 3
\* mark_failed's base priority of a retry item (100.0 + retry_count).
BaseRetryPriority == 100

NoPath == "none"

VARIABLES
    \* QueueManager
    queue,        \* _queue: the PriorityQueue's heap list of QueueItems
    processing,   \* _processing: the in-flight set
    failed,       \* _failed: path -> failure count (0: no entry)
    completed,    \* _completed
    now,          \* the clock read by QueueItem.added_time's default factory
    getting,      \* thread -> the item get_next_file popped and has not yet recorded
    \* history of the API calls
    lastAdd,      \* the path the last call inserted by add_file, when that was the last call
    lastDeq,      \* path -> priority and retry_count of the item get_next_file returned last
    chain,        \* path -> every mark_failed so far followed a dequeue and asked for a
                  \* retry, and no mark_completed was called
    dropped       \* the paths a mark_failed call has failed for good

VARIABLES
    \* StateManager
    st_lock,        \* _lock: the thread that holds it, or NoThread
    current_state,  \* current_state: path -> its entry's 'state', or Absent
    state_file,     \* what save_json last wrote to current_state.json
    history,        \* the rows of processing_history, in id order
    stats,          \* today's row of processing_stats
    spc,            \* thread -> where it is in its StateManager call
    sop,            \* thread -> the call it is in
    rec,            \* thread -> recover_interrupted's loop: the entries left, the list built
    \* history of the StateManager calls
    startup,        \* current_state as __init__ loaded it
    ncalls,         \* the calls made so far (up to 2)
    lastRecover     \* the list the last recover_interrupted returned

qvars == <<queue, processing, failed, completed, now, getting>>
qhist == <<lastAdd, lastDeq, chain, dropped>>
stvars == <<st_lock, current_state, state_file, history, stats, spc, sop, rec>>
sthist == <<startup, ncalls, lastRecover>>
VARIABLES watch, archive, failed_folder, temp,
          processing_files, file_sizes,
          phase, scan, handoff, starts,
          process_queue, failed_queue, run, retry_failed, diarization_enabled,
          outcome

VARIABLES size,       \* path -> the size of the file
          lastSeen,   \* path -> the size the detector found when it last looked at the file
          cleared,    \* path -> clear_processing_file was called for it
          written     \* path -> the file's size has changed since the start

dvars == <<size, lastSeen, cleared, written>>

\* The arguments and results of the functions that are checked on their own.
VARIABLES speaker_segments,        \* _align_segments' first argument
          transcription_segments,  \* _align_segments' second argument
          aligned_segments,        \* what _align_segments returned
          speaker_groups,          \* what _group_by_speaker returned
          chunk_results,           \* what the transcriber returns for each chunk
          transcription_result,    \* what _transcribe_chunks returned
          fpc                      \* how far the function under check has got

fvars == <<speaker_segments, transcription_segments, aligned_segments, speaker_groups,
           chunk_results, transcription_result, fpc>>

\* retry_with_backoff's wrapper and the CacheManager.
VARIABLES retry_args,     \* max_retries, initial_delay, backoff_factor, max_delay
          attempt,        \* the loop variable of the wrapper
          delay,          \* the wrapper's local delay
          call_count,     \* how often func has been called
          sleeps,         \* the arguments of time.sleep so far, in order
          retry_result,   \* how the wrapper ended and after which call
          memory_cache,   \* _memory_cache: the entries in the OrderedDict's order
          disk_cache,     \* key -> the .cache file of the key
          cache_args,     \* max_memory_items, ttl_seconds, enable_disk_cache
          cache_now,      \* the clock read by time.time() and by the file system
          cache_last      \* the last call of get or set and what it did

rtvars == <<retry_args, attempt, delay, call_count, sleeps, retry_result>>
cvars == <<memory_cache, disk_cache, cache_args, cache_now, cache_last>>
uvars == <<rtvars, cvars>>

fsvars == <<watch, archive, failed_folder, temp>>
hvars == <<processing_files, file_sizes>>
fwvars == <<phase, scan, handoff, starts>>
apvars == <<process_queue, failed_queue, run, retry_failed, diarization_enabled>>
sysvars == <<fsvars, hvars, fwvars, apvars, outcome>>
vars == <<qvars, qhist, stvars, sthist, sysvars, dvars, fvars, uvars>>

\* ------------------------------------------------------------ QueueItem
QueueItem(priority, file_path, added_time, retry_count) ==
    [priority |-> priority, file_path |-> file_path,
     added_time |-> added_time, retry_count |-> retry_count]

NoItem == QueueItem(0, NoPath, 0, 0)

\* dataclass(order=True): only priority takes part in the comparison.
ItemLess(x, y) == x.priority < y.priority

\* ------------------------------------------------------------ heapq
\* PriorityQueue._put is heapq.heappush and _get is heapq.heappop; positions
\* are heapq's 0-based ones, the list is a 1-based sequence.
RECURSIVE SiftDown(_, _, _, _)
SiftDown(heap, startpos, pos, newitem) ==
    IF pos > startpos
    THEN LET parentpos == (pos - 1) \div 2
             parent == heap[parentpos + 1]
         IN IF ItemLess(newitem, parent)
            THEN SiftDown([heap EXCEPT ![pos + 1] = parent], startpos, parentpos, newitem)
            ELSE [heap EXCEPT ![pos + 1] = newitem]
    ELSE [heap EXCEPT ![pos + 1] = newitem]

RECURSIVE SiftUpLoop(_, _, _)
SiftUpLoop(heap, pos, endpos) ==
    LET childpos == 2 * pos + 1
    IN IF childpos < endpos
       THEN LET rightpos == childpos + 1
                c == IF rightpos < endpos /\ ~ItemLess(heap[childpos + 1], heap[rightpos + 1])
                     THEN rightpos ELSE childpos
            IN SiftUpLoop([heap EXCEPT ![pos + 1] = heap[c + 1]], c, endpos)
       ELSE [heap |-> heap, pos |-> pos]

SiftUp(heap, pos) ==
    LET newitem == heap[pos + 1]
        r == SiftUpLoop(heap, pos, Len(heap))
    IN SiftDown(r.heap, pos, r.pos, newitem)

HeapPush(heap, item) == SiftDown(Append(heap, item), 0, Len(heap), item)

HeapPop(heap) ==
    LET lastelt == heap[Len(heap)]
        rest == SubSeq(heap, 1, Len(heap) - 1)
    IN IF rest # <<>>
       THEN [item |-> rest[1], heap |-> SiftUp([rest EXCEPT ![1] = lastelt], 0)]
       ELSE [item |-> lastelt, heap |-> rest]

\* ------------------------------------------------------------ QueueManager
\* The QueueManager's fields as one record, so that its methods are functions
\* from state to state.
QM == [queue |-> queue, processing |-> processing, failed |-> failed,
       completed |-> completed, now |-> now]

\* An add_file that looks at the in-flight set only.
add_file_in_flight_only(q, file_path, priority) ==
    IF file_path \in q.processing
    THEN q
    ELSE [q EXCEPT !.queue = HeapPush(@, QueueItem(priority, file_path, q.now, 0))]

add_file(q, file_path, priority) ==
    IF file_path \in q.processing \/ file_path \in q.completed
    THEN q
    ELSE [q EXCEPT !.queue = HeapPush(@, QueueItem(priority, file_path, q.now, 0))]

\* get_next_file, first half: self._queue.get() (outside self._lock).
get_next_file_get(q) ==
    LET r == HeapPop(q.queue)
    IN [item |-> r.item, q |-> [q EXCEPT !.queue = r.heap]]

\* get_next_file, second half: with self._lock: self._processing.add(...).
get_next_file_record(q, item) ==
    [q EXCEPT !.processing = @ \cup {item.file_path}]

\* A mark_completed that leaves the failure counter.
mark_completed_keeps_count(q, file_path) ==
    [q EXCEPT !.processing = @ \ {file_path},
              !.completed = @ \cup {file_path}]

mark_completed(q, file_path) ==
    [q EXCEPT !.processing = @ \ {file_path},
              !.completed = @ \cup {file_path},
              !.failed[file_path] = 0]

mark_failed(q, file_path, retry, max_retries) ==
    LET retry_count == q.failed[file_path] + 1
        q1 == [q EXCEPT !.processing = @ \ {file_path},
                        !.failed[file_path] = retry_count]
    IN IF retry /\ retry_count < max_retries
       THEN [q1 EXCEPT !.queue = HeapPush(@, QueueItem(BaseRetryPriority + retry_count,
                                                       file_path, q.now, retry_count))]
       ELSE q1

SetQM(q) ==
    /\ queue' = q.queue
    /\ processing' = q.processing
    /\ failed' = q.failed
    /\ completed' = q.completed
    /\ now' = q.now

\* The items of file_path in a heap list.
ItemsOf(heap, file_path) == {i \in 1..Len(heap) : heap[i].file_path = file_path}

\* What the history keeps of a dequeued item.
Brief(item) == [priority |-> item.priority, retry_count |-> item.retry_count]
NoBrief == [priority |-> 0, retry_count |-> -1]

\* The QueueItems of a heap list as a bag.
RECURSIVE BagOf(_)
BagOf(heap) ==
    IF heap = <<>> THEN EmptyBag ELSE BagOf(Tail(heap)) (+) SetToBag({Head(heap)})

\* ------------------------------------------------------------ StateManager
NoThread == "nobody"
Absent == "absent"

\* ProcessingState.
ProcessingStates ==
    {"queued", "processing", "diarizing", "transcribing", "generating",
     "completed", "failed", "archived"}

\* The states recover_interrupted looks for.
RecoverStates == {"processing", "diarizing", "transcribing", "generating"}

NoError == "none"
RestartError == "Processing interrupted - system restart"
SomeError == "error"

\* A row of processing_history; completed stands for completed_at IS NOT NULL,
\* duration for duration_seconds ("none": NULL).
Row(file_path, state, isCompleted, error_message, duration) ==
    [file_path |-> file_path, state |-> state, completed |-> isCompleted,
     error_message |-> error_message, duration |-> duration]

\* The calls of the StateManager's API.
Call(op, file_path, state, success, error_message) ==
    [op |-> op, file_path |-> file_path, state |-> state, success |-> success,
     error_message |-> error_message, duration |-> "none"]

NoCall == Call("none", NoPath, Absent, FALSE, NoError)

StCalls ==
    {Call("start_processing", p, Absent, FALSE, NoError) : p \in Paths}
    \cup {Call("update_state", p, s, FALSE, IF s = "failed" THEN SomeError ELSE NoError) :
             p \in Paths, s \in UpdateStates}
    \cup {Call("complete_processing", p, Absent, TRUE, NoError) : p \in Paths}
    \cup {Call("complete_processing", p, Absent, FALSE, SomeError) : p \in Paths}
    \cup {Call("recover_interrupted", NoPath, Absent, FALSE, NoError)}

\* threading.Lock is not re-entrant: acquire() waits while any thread, the
\* caller included, holds it.
CanAcquireReentrant(t) == st_lock \in {NoThread, t}
CanAcquire(t) == st_lock = NoThread

\* The open rows of file_path (WHERE file_path = ? AND completed_at IS NULL).
OpenRows(h, file_path) ==
    {i \in 1..Len(h) : h[i].file_path = file_path /\ ~h[i].completed}

\* start_processing's INSERT.
InsertRow(h, file_path) ==
    Append(h, Row(file_path, "processing", FALSE, NoError, "none"))

\* update_state's UPDATE.
UpdateRows(h, file_path, state, error_message) ==
    [i \in 1..Len(h) |->
        IF i \in OpenRows(h, file_path)
        THEN [h[i] EXCEPT !.state = state, !.error_message = error_message]
        ELSE h[i]]

\* An UPDATE of complete_processing without "AND completed_at IS NULL".
CompleteRowsOfPath(h, file_path, success, error_message, duration) ==
    [i \in 1..Len(h) |->
        IF h[i].file_path = file_path
        THEN [h[i] EXCEPT !.state = IF success THEN "completed" ELSE "failed",
                          !.completed = TRUE,
                          !.duration = duration,
                          !.error_message = error_message]
        ELSE h[i]]

\* complete_processing's UPDATE.
CompleteRows(h, file_path, success, error_message, duration) ==
    [i \in 1..Len(h) |->
        IF i \in OpenRows(h, file_path)
        THEN [h[i] EXCEPT !.state = IF success THEN "completed" ELSE "failed",
                          !.completed = TRUE,
                          !.duration = duration,
                          !.error_message = error_message]
        ELSE h[i]]

\* _update_daily_stats.
UpdateDailyStats(st, success) ==
    IF success THEN [st EXCEPT !.total_processed = @ + 1]
               ELSE [st EXCEPT !.total_failed = @ + 1]

\* list(self.current_state.items()), in the order of the paths.
RECURSIVE SeqOf(_)
SeqOf(S) ==
    IF S = {} THEN <<>>
    ELSE LET x == CHOOSE y \in S : \A z \in S : y <= z
         IN <<x>> \o SeqOf(S \ {x})

\* Strings are ordered by the order given here.
PathRank(p) == IF p = "a.wav" THEN 1 ELSE 2
RankPath(i) == IF i = 1 THEN "a.wav" ELSE "b.wav"
Entries(cs) ==
    LET ranks == SeqOf({PathRank(p) : p \in {q \in Paths : cs[q] # Absent}})
    IN [i \in 1..Len(ranks) |-> RankPath(ranks[i])]

\* recover_interrupted's loop from the entries left: the entries whose state
\* is not one of RecoverStates are passed over; the first that is one is the
\* next complete_processing call, and with none left the call returns.
RECURSIVE SkipEntries(_, _)
SkipEntries(todo, cs) ==
    IF todo = <<>> \/ cs[Head(todo)] \in RecoverStates
    THEN todo
    ELSE SkipEntries(Tail(todo), cs)

NoRec == [active |-> FALSE, todo |-> <<>>, result |-> <<>>]
NotReturned == <<NoPath>>

\* The StateManager's state as one record.
SM == [st_lock |-> st_lock, current_state |-> current_state, state_file |-> state_file,
       history |-> history, stats |-> stats, spc |-> spc, sop |-> sop, rec |-> rec,
       lastRecover |-> lastRecover]

SetSM(m) ==
    /\ st_lock' = m.st_lock
    /\ current_state' = m.current_state
    /\ state_file' = m.state_file
    /\ history' = m.history
    /\ stats' = m.stats
    /\ spc' = m.spc
    /\ sop' = m.sop
    /\ rec' = m.rec
    /\ lastRecover' = m.lastRecover

\* Thread t's call returns.
Return(m, t) ==
    [m EXCEPT !.spc[t] = "idle", !.sop[t] = NoCall]

\* recover_interrupted goes on with the entries in todo, st_lock held: it calls
\* complete_processing for the next entry to recover, or leaves the with block
\* and returns its list.
RecoverLoop(m, t, todo, result) ==
    LET left == SkipEntries(todo, m.current_state)
    IN IF left = <<>>
       THEN [Return(m, t) EXCEPT !.st_lock = NoThread, !.rec[t] = NoRec,
                                 !.lastRecover = result]
       ELSE [m EXCEPT !.rec[t] = [active |-> TRUE, todo |-> left, result |-> result],
                      !.sop[t] = Call("complete_processing", Head(left), Absent,
                                      FALSE, RestartError),
                      !.spc[t] = "lock"]

\* with self._lock: of start_processing, update_state, complete_processing and
\* recover_interrupted, up to the call of _save_current_state or the end of
\* the block.
LockedBlock(m, t) ==
    LET c == m.sop[t]
        p == c.file_path
        held == [m EXCEPT !.st_lock = t]
    IN CASE c.op = "start_processing" ->
              [held EXCEPT !.current_state[p] = "processing", !.spc[t] = "save"]
         [] c.op = "update_state" ->
              IF m.current_state[p] # Absent
              THEN [held EXCEPT !.current_state[p] = c.state, !.spc[t] = "save"]
              ELSE [m EXCEPT !.st_lock = NoThread, !.spc[t] = "db"]
         [] c.op = "complete_processing" ->
              IF m.current_state[p] # Absent
              THEN [held EXCEPT !.current_state[p] = Absent, !.spc[t] = "save",
                                !.sop[t].duration = "some"]
              ELSE [m EXCEPT !.st_lock = NoThread, !.spc[t] = "db"]
         [] OTHER ->
              RecoverLoop(held, t, Entries(m.current_state), <<>>)

\* _save_current_state: with self._lock: save_json(...); the caller's with
\* block ends right after it.
SaveCurrentState(m, t) ==
    [m EXCEPT !.state_file = m.current_state, !.st_lock = NoThread, !.spc[t] = "db"]

\* with self._get_db(): of start_processing, update_state, complete_processing.
DbBlock(m, t) ==
    LET c == m.sop[t]
        p == c.file_path
    IN CASE c.op = "start_processing" ->
              Return([m EXCEPT !.history = InsertRow(@, p)], t)
         [] c.op = "update_state" ->
              Return([m EXCEPT !.history = UpdateRows(@, p, c.state,
                                              IF c.error_message = NoError
                                              THEN NoError ELSE c.error_message)], t)
         [] OTHER ->
              [m EXCEPT !.history = CompleteRows(@, p, c.success, c.error_message, c.duration),
                        !.spc[t] = "stats"]

\* complete_processing's self._update_daily_stats(success, duration) and what
\* follows its return.
StatsBlock(m, t) ==
    LET m1 == [m EXCEPT !.stats = UpdateDailyStats(@, m.sop[t].success)]
    IN IF m.rec[t].active
       THEN RecoverLoop(m1, t, Tail(m.rec[t].todo),
                        Append(m.rec[t].result, m.sop[t].file_path))
       ELSE Return(m1, t)

\* ------------------------------------------------------------ FileWatcher, AudioFileHandler, AudioProcessor
\* The threads that run _process_file.
Workers == {"processing_thread", "retry_thread"}

\* processing.max_retries.
ConfigMaxRetries == 3

\* The priority _scan_existing_files queues with (add_file's default priority)
\* and the one _handle_file queues with (-st_mtime, below zero).
ScanPriority == 0
HandlerPriority == -1

\* The size a file has when it turns up; NoSize: no entry in _file_sizes.
FileSize == 1
NoSize == 0

\* The paths of S in the order of iterdir().
PathsInOrder(S) ==
    LET ranks == SeqOf({PathRank(p) : p \in S})
    IN [i \in 1..Len(ranks) |-> RankPath(ranks[i])]

\* The steps of _process_file, in order.
Stages ==
    <<"validate", "convert", "chunk", "diarize", "transcribe", "generate",
      "archive", "cleanup">>

\* The step that follows stage when archiving is moved ahead of transcription.
StageAfterArchiveEarly(stage, enabled) ==
    LET early == <<"validate", "convert", "chunk", "diarize", "archive",
                   "transcribe", "generate", "cleanup">>
        i == CHOOSE j \in 1..Len(early) : early[j] = stage
        next == early[i + 1]
    IN IF next = "diarize" /\ ~enabled THEN early[i + 2] ELSE next

\* The step that follows stage; enabled is config['diarization']['enabled'],
\* without which the diarizer is not called.
StageAfter(stage, enabled) ==
    LET i == CHOOSE j \in 1..Len(Stages) : Stages[j] = stage
        next == Stages[i + 1]
    IN IF next = "diarize" /\ ~enabled THEN Stages[i + 2] ELSE next

\* result.diarization_result when _process_file comes to the transcription:
\* what the diarizer returned, or None when diarization is disabled.
NoResult == "None"
DiarizationResult(enabled) == IF enabled THEN "segments" ELSE NoResult

\* TranscriptGenerator.generate raises on its own account: its first use of
\* diarization_result is diarization_result.get(...), an AttributeError on
\* None, which its except clause logs and raises again.
GenerateRaises(diarization_result) == diarization_result = NoResult

\* A thread's run of _process_file: converted stands for
\* converted_path != file_path, chunks for a non-empty chunk list.
Run(file_path, stage, converted, chunks, retry_count) ==
    [file_path |-> file_path, stage |-> stage, converted |-> converted,
     chunks |-> chunks, retry_count |-> retry_count]

NoRun == Run(NoPath, "idle", FALSE, FALSE, 0)

\* The temporary files of a run.
TempFile(file_path, kind) == [of |-> file_path, kind |-> kind]
TempFilesOf(r) ==
    (IF r.converted THEN {TempFile(r.file_path, "converted")} ELSE {})
    \cup (IF r.chunks THEN {TempFile(r.file_path, "chunk")} ELSE {})

\* An entry of failed_queue; last_attempt is left to RetryLoopGet's elapsed.
FailedEntry(file_path, retry_count) ==
    [file_path |-> file_path, retry_count |-> retry_count]

\* A detector that takes any recorded size for a stable one.
IsFileReadyAnyEntry(sizes, file_path, current_size) ==
    IF sizes[file_path] # NoSize
    THEN [ready |-> TRUE, file_sizes |-> sizes]
    ELSE [ready |-> FALSE, file_sizes |-> [sizes EXCEPT ![file_path] = current_size]]

\* AudioFileHandler._is_file_ready: [ready, file_sizes].
IsFileReady(sizes, file_path, current_size) ==
    IF sizes[file_path] # NoSize /\ sizes[file_path] = current_size
    THEN [ready |-> TRUE, file_sizes |-> sizes]
    ELSE [ready |-> FALSE, file_sizes |-> [sizes EXCEPT ![file_path] = current_size]]

\* ------------------------------------------------------------ initial states
QueueInit ==
    /\ queue = <<>>
    /\ processing = {}
    /\ failed = [p \in Paths |-> 0]
    /\ completed = {}
    /\ now = 0
    /\ getting = [t \in Getters |-> NoItem]
    /\ lastAdd = NoPath
    /\ lastDeq = [p \in Paths |-> NoBrief]
    /\ chain = [p \in Paths |-> TRUE]
    /\ dropped = {}

\* No function is under check.
FunctionsIdle ==
    /\ speaker_segments = <<>>
    /\ transcription_segments = <<>>
    /\ aligned_segments = <<>>
    /\ speaker_groups = <<>>
    /\ chunk_results = <<>>
    /\ transcription_result = <<>>
    /\ fpc = "idle"

\* No wrapped function is being called and the cache is empty.
NoRetryArgs == [max_retries |-> 0, initial_delay |-> 0, backoff_factor |-> 0, max_delay |-> 0]
NoCacheArgs == [max_memory_items |-> 0, ttl_seconds |-> 0, enable_disk_cache |-> FALSE]
NoFile == [value |-> -1, mtime |-> -1]
NoCacheCall == [op |-> "none", key |-> "none", result |-> -1, used |-> <<>>]

RetryIdle ==
    /\ retry_args = NoRetryArgs
    /\ attempt = 0
    /\ delay = 0
    /\ call_count = 0
    /\ sleeps = <<>>
    /\ retry_result = [how |-> "idle", call |-> 0]

CacheIdle ==
    /\ memory_cache = <<>>
    /\ disk_cache = <<>>
    /\ cache_args = NoCacheArgs
    /\ cache_now = 0
    /\ cache_last = NoCacheCall

UtilsIdle == RetryIdle /\ CacheIdle

\* The files have their first size and the detector has looked at none.
DetectorInit ==
    /\ size = [p \in Paths |-> FileSize]
    /\ lastSeen = [p \in Paths |-> NoSize]
    /\ cleared = [p \in Paths |-> FALSE]
    /\ written = [p \in Paths |-> FALSE]

\* A StateManager nobody has called, on an empty state folder.
StateIdle ==
    /\ st_lock = NoThread
    /\ current_state = [p \in Paths |-> Absent]
    /\ state_file = [p \in Paths |-> Absent]
    /\ history = <<>>
    /\ stats = [total_processed |-> 0, total_failed |-> 0]
    /\ spc = [t \in StThreads |-> "idle"]
    /\ sop = [t \in StThreads |-> NoCall]
    /\ rec = [t \in StThreads |-> NoRec]
    /\ startup = [p \in Paths |-> Absent]
    /\ ncalls = 0
    /\ lastRecover = NotReturned

\* A program that is not started, on an empty watch folder.
SystemIdle ==
    /\ watch = {}
    /\ archive = {}
    /\ failed_folder = {}
    /\ temp = {}
    /\ processing_files = {}
    /\ file_sizes = [p \in Paths |-> NoSize]
    /\ phase = "new"
    /\ scan = [todo |-> <<>>, step |-> "size"]
    /\ handoff = NoPath
    /\ starts = 0
    /\ process_queue = <<>>
    /\ failed_queue = <<>>
    /\ run = [t \in Workers |-> NoRun]
    /\ retry_failed = TRUE
    /\ diarization_enabled = TRUE
    /\ outcome = [p \in Paths |-> "none"]
    /\ DetectorInit

QInit == QueueInit /\ FunctionsIdle /\ UtilsIdle /\ StateIdle /\ SystemIdle

\* ------------------------------------------------------------ the API, called freely
\* What these calls leave alone.
NotQueue == UNCHANGED <<stvars, sthist, sysvars, dvars, fvars, uvars>>

\* time.time() advances.
Tick ==
    /\ now < MaxClock
    /\ now' = now + 1
    /\ UNCHANGED <<queue, processing, failed, completed, getting, qhist>>
    /\ NotQueue

AddFileCall(p, priority) ==
    /\ Len(add_file(QM, p, priority).queue) <= MaxQueue
    /\ SetQM(add_file(QM, p, priority))
    /\ UNCHANGED getting

GetNextFileGet(t) ==
    /\ getting[t] = NoItem
    /\ queue # <<>>
    /\ LET r == get_next_file_get(QM)
       IN /\ SetQM(r.q)
          /\ getting' = [getting EXCEPT ![t] = r.item]

GetNextFileReturn(t) ==
    /\ getting[t] # NoItem
    /\ SetQM(get_next_file_record(QM, getting[t]))
    /\ getting' = [getting EXCEPT ![t] = NoItem]

MarkCompletedCall(p) ==
    /\ SetQM(mark_completed(QM, p))
    /\ UNCHANGED getting

MarkFailedCall(p, retry) ==
    /\ failed[p] < MaxFails
    /\ Len(mark_failed(QM, p, retry, DefaultMaxRetries).queue) <= MaxQueue
    /\ SetQM(mark_failed(QM, p, retry, DefaultMaxRetries))
    /\ UNCHANGED getting

\* The calls alone.
QAddFile(p, priority) == AddFileCall(p, priority) /\ UNCHANGED qhist /\ NotQueue
QGetNextFileGet(t) == GetNextFileGet(t) /\ UNCHANGED qhist /\ NotQueue
QGetNextFileReturn(t) == GetNextFileReturn(t) /\ UNCHANGED qhist /\ NotQueue
QMarkCompleted(p) == MarkCompletedCall(p) /\ UNCHANGED qhist /\ NotQueue
QMarkFailed(p, retry) == MarkFailedCall(p, retry) /\ UNCHANGED qhist /\ NotQueue

QNext ==
    \/ \E p \in Paths, priority \in AddPriorities : QAddFile(p, priority)
    \/ \E t \in Getters : QGetNextFileGet(t)
    \/ \E t \in Getters : QGetNextFileReturn(t)
    \/ \E p \in Paths : QMarkCompleted(p)
    \/ \E p \in Paths, retry \in BOOLEAN : QMarkFailed(p, retry)

SpecQ == QInit /\ [][QNext]_vars

\* The calls, with the history of what was added and dequeued.
HAddFile(p, priority) ==
    /\ AddFileCall(p, priority)
    /\ NotQueue
    /\ lastAdd' = IF add_file(QM, p, priority) = QM THEN NoPath ELSE p
    /\ UNCHANGED <<lastDeq, chain, dropped>>

HGetNextFileGet(t) ==
    /\ GetNextFileGet(t)
    /\ NotQueue
    /\ lastAdd' = NoPath
    /\ UNCHANGED <<lastDeq, chain, dropped>>

HGetNextFileReturn(t) ==
    /\ GetNextFileReturn(t)
    /\ NotQueue
    /\ lastAdd' = NoPath
    /\ lastDeq' = [lastDeq EXCEPT ![getting[t].file_path] = Brief(getting[t])]
    /\ UNCHANGED <<chain, dropped>>

HMarkCompleted(p) ==
    /\ MarkCompletedCall(p)
    /\ NotQueue
    /\ lastAdd' = NoPath
    /\ chain' = [chain EXCEPT ![p] = FALSE]
    /\ UNCHANGED <<lastDeq, dropped>>

HMarkFailed(p, retry) ==
    /\ MarkFailedCall(p, retry)
    /\ NotQueue
    /\ lastAdd' = NoPath
    /\ chain' = [chain EXCEPT ![p] = @ /\ retry /\ p \in processing]
    /\ UNCHANGED <<lastDeq, dropped>>

HNext ==
    \/ \E p \in Paths, priority \in AddPriorities : HAddFile(p, priority)
    \/ \E t \in Getters : HGetNextFileGet(t)
    \/ \E t \in Getters : HGetNextFileReturn(t)
    \/ \E p \in Paths : HMarkCompleted(p)
    \/ \E p \in Paths, retry \in BOOLEAN : HMarkFailed(p, retry)

SpecQH == QInit /\ [][HNext]_vars

\* ------------------------------------------------------------ claims: QueueManager

\* C1: get_next_file never returns a path that is already in the in-flight
\* set, i.e. a path an earlier get_next_file returned and neither
\* mark_completed nor mark_failed has released since.
C1_NoDoubleDequeue ==
    [][\A t \in Getters :
          HGetNextFileReturn(t) => getting[t].file_path \notin processing]_vars

\* C2: add_file(p) called right after an add_file(p) that inserted p's
\* WorkItem is a no-op: the queue still holds exactly one WorkItem for p.
C2_SecondAddIsNoOp ==
    [][\A p \in Paths, priority \in AddPriorities :
          (lastAdd = p /\ HAddFile(p, priority))
              => /\ queue' = queue
                 /\ Cardinality(ItemsOf(queue', p)) = 1]_vars

\* C10: when every mark_failed(p, retry=True, max_retries) call followed a
\* dequeue of p, the k-th of them, k < max_retries, puts exactly one new
\* WorkItem for p into the queue; its retry_count is one more than, and its
\* priority strictly greater than, that of the item dequeued for p before it.
C10_RetryMonotone ==
    [][\A p \in Paths :
          (HMarkFailed(p, TRUE) /\ chain'[p] /\ failed[p] + 1 < DefaultMaxRetries)
              => \E i \in 1..Len(queue') :
                    /\ queue'[i].file_path = p
                    /\ BagOf(queue') = BagOf(queue) (+) SetToBag({queue'[i]})
                    /\ queue'[i].retry_count = lastDeq[p].retry_count + 1
                    /\ queue'[i].priority > lastDeq[p].priority]_vars

\* ------------------------------------------------------------ the API with any caller's priorities
\* The calls, with the history of the paths failed for good.
RAddFile(p, priority) ==
    /\ AddFileCall(p, priority)
    /\ NotQueue
    /\ UNCHANGED qhist

RGetNextFileGet(t) ==
    /\ GetNextFileGet(t)
    /\ NotQueue
    /\ UNCHANGED qhist

RGetNextFileReturn(t) ==
    /\ GetNextFileReturn(t)
    /\ NotQueue
    /\ UNCHANGED qhist

RMarkCompleted(p) ==
    /\ MarkCompletedCall(p)
    /\ NotQueue
    /\ UNCHANGED qhist

\* mark_failed fails p for good when it is told not to retry or the count has
\* reached max_retries.
RMarkFailed(p, retry) ==
    /\ MarkFailedCall(p, retry)
    /\ NotQueue
    /\ dropped' = IF retry /\ failed[p] + 1 < DefaultMaxRetries
                  THEN dropped ELSE dropped \cup {p}
    /\ UNCHANGED <<lastAdd, lastDeq, chain>>

RNext ==
    \/ \E p \in Paths, priority \in CallerPriorities : RAddFile(p, priority)
    \/ \E t \in Getters : RGetNextFileGet(t)
    \/ \E t \in Getters : RGetNextFileReturn(t)
    \/ \E p \in Paths : RMarkCompleted(p)
    \/ \E p \in Paths, retry \in BOOLEAN : RMarkFailed(p, retry)

SpecQR == QInit /\ [][RNext]_vars

\* ---- spec: the same calls on a short queue ----
\* The calls of SpecQR, with at most MaxFrameQueue items queued and at most
\* MaxFrameFails failures counted for a path.
FAddFile(p, priority) ==
    /\ Len(queue) < MaxFrameQueue
    /\ RAddFile(p, priority)

FMarkFailed(p, retry) ==
    /\ Len(queue) < MaxFrameQueue
    /\ failed[p] < MaxFrameFails
    /\ RMarkFailed(p, retry)

FNext ==
    \/ \E p \in Paths, priority \in CallerPriorities : FAddFile(p, priority)
    \/ \E t \in Getters : RGetNextFileGet(t)
    \/ \E t \in Getters : RGetNextFileReturn(t)
    \/ \E p \in Paths : RMarkCompleted(p)
    \/ \E p \in Paths, retry \in BOOLEAN : FMarkFailed(p, retry)

SpecQF == QInit /\ [][FNext]_vars

\* C28: add_file(p) changes nothing when p is in the in-flight set or in the
\* completed set; otherwise it puts exactly one item for p, with the
\* caller's priority and no retries, into the queue and changes nothing else.
C28_AddFileFrame ==
    [][\A p \in Paths, priority \in CallerPriorities :
          FAddFile(p, priority)
              => /\ processing' = processing
                 /\ completed' = completed
                 /\ failed' = failed
                 /\ IF p \in processing \/ p \in completed
                    THEN queue' = queue
                    ELSE BagOf(queue') =
                            BagOf(queue) (+) SetToBag({QueueItem(priority, p, now, 0)})]_vars

\* add_file has put an item into the queue for a path that is neither in
\* flight nor completed while the other path is completed and has no item.
C28_Witness ==
    /\ "a.wav" \notin processing \cup completed
    /\ \E i \in 1..Len(queue) : queue[i].file_path = "a.wav" /\ queue[i].priority = 200
    /\ "b.wav" \in completed
    /\ ItemsOf(queue, "b.wav") = {}

\* C29: mark_completed(p) takes p out of the in-flight set, puts it into the
\* completed set, clears its failure counter and touches nothing else; a
\* second call right after it changes nothing.
C29_MarkCompletedIdempotent ==
    [][\A p \in Paths :
          RMarkCompleted(p)
              => /\ processing' = processing \ {p}
                 /\ completed' = completed \cup {p}
                 /\ failed' = [failed EXCEPT ![p] = 0]
                 /\ queue' = queue
                 /\ mark_completed(QM', p) = QM']_vars

\* A path that had failed for good was marked completed: it is in the
\* completed set, not in flight, and its counter is cleared.
C29_Witness ==
    \E p \in Paths :
        /\ p \in dropped
        /\ p \in completed
        /\ p \notin processing
        /\ failed[p] = 0

\* A get_next_file call has popped an item and has not yet put its path into
\* the in-flight set.
Popped == {t \in Getters : getting[t] # NoItem}

\* C33: in get_next_file the pop and the addition to the in-flight set are one
\* step for add_file, mark_completed and mark_failed: none of them runs
\* while an item is popped and its path is not yet in the in-flight set.
C33_DequeueAtomic ==
    [][Popped # {}
          => /\ \A p \in Paths, priority \in CallerPriorities : ~FAddFile(p, priority)
             /\ \A p \in Paths : ~RMarkCompleted(p)
             /\ \A p \in Paths, retry \in BOOLEAN : ~FMarkFailed(p, retry)]_vars

\* C34: after any sequence of add_file, get_next_file, mark_completed and
\* mark_failed calls each path is in at most one place: it has at most one
\* item in the queue, a queued path is neither in flight nor completed, and
\* no path is both in flight and completed.
C34_OnePlacePerPath ==
    Popped = {}
        => \A p \in Paths :
              /\ Cardinality(ItemsOf(queue, p)) <= 1
              /\ ItemsOf(queue, p) # {} => p \notin processing \cup completed
              /\ ~(p \in processing /\ p \in completed)

\* C11: whenever the queue holds an item created by mark_failed and an item
\* created by add_file for a path that never failed, get_next_file takes the
\* add_file item, whatever priority add_file was called with.
C11_RetryBehindFresh ==
    [][\A t \in Getters :
          (/\ RGetNextFileGet(t)
           /\ \E i \in 1..Len(queue) : queue[i].retry_count > 0
           /\ \E i \in 1..Len(queue) :
                 queue[i].retry_count = 0 /\ failed[queue[i].file_path] = 0)
              => getting'[t].retry_count = 0]_vars

\* C12: once mark_failed has failed p for good (retry=False, or the failure
\* count has reached max_retries), no later call puts an item for p into the
\* queue.
C12_DroppedForGood ==
    [][\A p \in Paths :
          p \in dropped
              => Cardinality(ItemsOf(queue', p)) <= Cardinality(ItemsOf(queue, p))]_vars

\* ------------------------------------------------------------ the order of dequeues
\* add_file and get_next_file on three paths, with the clock advancing.
OrderInit ==
    /\ QueueInit
    /\ UtilsIdle
    /\ FunctionsIdle
    /\ StateIdle
    /\ SystemIdle

OAddFile(p, priority) ==
    /\ Len(queue) < MaxOrderQueue
    /\ SetQM(add_file(QM, p, priority))
    /\ UNCHANGED <<getting, qhist>>
    /\ NotQueue

OGetNextFileGet(t) ==
    /\ GetNextFileGet(t)
    /\ UNCHANGED qhist
    /\ NotQueue

OGetNextFileReturn(t) ==
    /\ GetNextFileReturn(t)
    /\ UNCHANGED qhist
    /\ NotQueue

ONext ==
    \/ Tick
    \/ \E p \in OrderPaths, priority \in AddPriorities : OAddFile(p, priority)
    \/ \E t \in Getters : OGetNextFileGet(t)
    \/ \E t \in Getters : OGetNextFileReturn(t)

SpecOrder == OrderInit /\ [][ONext]_vars

\* C13: the item get_next_file takes has the lowest priority value of the
\* queued items, and of the queued items with that priority it is one that was
\* enqueued earliest.
C13_LowestThenOldest ==
    [][\A t \in Getters :
          OGetNextFileGet(t)
              => \A i \in 1..Len(queue) :
                    /\ getting'[t].priority <= queue[i].priority
                    /\ queue[i].priority = getting'[t].priority
                          => getting'[t].added_time <= queue[i].added_time]_vars

\* ------------------------------------------------------------ the StateManager, called freely
\* What is on disk when the StateManager is constructed is an input:
\* current_state.json (read by _load_current_state) holds any entries, and
\* processing_history holds, per file, at most one earlier closed row and at
\* most one open row; a file with an entry has its open row.
StartupRows(cs, closedOf, orphans) ==
    LET rowsOf(p) ==
            (IF p \in closedOf THEN <<Row(p, "completed", TRUE, NoError, "some")>> ELSE <<>>)
            \o (IF cs[p] # Absent THEN <<Row(p, cs[p], FALSE, NoError, "none")>>
                ELSE IF p \in orphans THEN <<Row(p, "processing", FALSE, NoError, "none")>>
                ELSE <<>>)
    IN rowsOf("a.wav") \o rowsOf("b.wav")

StInit ==
    /\ QueueInit
    /\ UtilsIdle
    /\ FunctionsIdle
    /\ SystemIdle
    /\ st_lock = NoThread
    /\ current_state \in [Paths -> ProcessingStates \cup {Absent}]
    /\ state_file = current_state
    /\ \E closedOf \in SUBSET Paths, orphans \in SUBSET Paths :
          history = StartupRows(current_state, closedOf, orphans)
    /\ stats = [total_processed |-> 0, total_failed |-> 0]
    /\ spc = [t \in StThreads |-> "idle"]
    /\ sop = [t \in StThreads |-> NoCall]
    /\ rec = [t \in StThreads |-> NoRec]
    /\ startup = current_state
    /\ ncalls = 0
    /\ lastRecover = NotReturned

NotState == UNCHANGED <<qvars, qhist, sysvars, dvars, fvars, uvars>>

\* A thread calls one of the StateManager's methods.
StCall(t, c) ==
    /\ spc[t] = "idle"
    /\ c.op = "start_processing" => Len(history) < MaxHistory
    /\ c.op = "complete_processing" => stats.total_processed + stats.total_failed < MaxStats
    /\ spc' = [spc EXCEPT ![t] = "lock"]
    /\ sop' = [sop EXCEPT ![t] = c]
    /\ ncalls' = IF ncalls < 2 THEN ncalls + 1 ELSE ncalls
    /\ UNCHANGED <<st_lock, current_state, state_file, history, stats, rec,
                   startup, lastRecover>>
    /\ NotState

\* with self._lock: the thread gets the lock and runs the block it guards.
StAcquire(t) ==
    /\ spc[t] \in {"lock", "save"}
    /\ CanAcquire(t)
    /\ SetSM(IF spc[t] = "save" THEN SaveCurrentState(SM, t) ELSE LockedBlock(SM, t))
    /\ UNCHANGED <<startup, ncalls>>
    /\ NotState

StDb(t) ==
    /\ spc[t] = "db"
    /\ SetSM(DbBlock(SM, t))
    /\ UNCHANGED <<startup, ncalls>>
    /\ NotState

StStats(t) ==
    /\ spc[t] = "stats"
    /\ SetSM(StatsBlock(SM, t))
    /\ UNCHANGED <<startup, ncalls>>
    /\ NotState

StNext ==
    \/ \E t \in StThreads, c \in StCalls : StCall(t, c)
    \/ \E t \in StThreads : StAcquire(t)
    \/ \E t \in StThreads : StDb(t)
    \/ \E t \in StThreads : StStats(t)

SpecState == StInit /\ [][StNext]_vars


\* ------------------------------------------------------------ the program: watcher, queue and processor
\* The watch folder holds any of the files when the program is constructed;
\* retry_failed is the configuration's processing.retry_failed,
\* diarization_enabled its diarization.enabled.
SysInit ==
    /\ QueueInit
    /\ UtilsIdle
    /\ FunctionsIdle
    /\ StateIdle
    /\ watch \in SUBSET Recordings
    /\ archive = {}
    /\ failed_folder = {}
    /\ temp = {}
    /\ processing_files = {}
    /\ file_sizes = [p \in Paths |-> NoSize]
    /\ phase = "new"
    /\ scan = [todo |-> <<>>, step |-> "size"]
    /\ handoff = NoPath
    /\ starts = 0
    /\ process_queue = <<>>
    /\ failed_queue = <<>>
    /\ run = [t \in Workers |-> NoRun]
    /\ retry_failed \in BOOLEAN
    /\ diarization_enabled \in BOOLEAN
    /\ outcome = [p \in Paths |-> "none"]
    /\ DetectorInit

NotSystem == UNCHANGED <<now, qhist, stvars, sthist, fvars, uvars>>

\* A recording that was never there is put into the watch folder.
CreateFile(p) ==
    /\ phase # "new"
    /\ p \notin watch
    /\ p \notin failed_folder
    /\ outcome[p] = "none"
    /\ watch' = watch \cup {p}
    /\ UNCHANGED <<archive, failed_folder, temp, hvars, fwvars, apvars, outcome>>
    /\ UNCHANGED <<queue, processing, failed, completed, getting>>
    /\ NotSystem
    /\ UNCHANGED dvars

\* FileWatcher.start up to the call of _scan_existing_files: the observer and
\* the queue thread run from here on.
FileWatcherStart ==
    /\ phase = "new"
    /\ starts < MaxStarts
    /\ phase' = "scanning"
    /\ starts' = starts + 1
    /\ scan' = [todo |-> PathsInOrder(watch), step |-> "size"]
    /\ UNCHANGED <<handoff, fsvars, hvars, apvars, outcome>>
    /\ UNCHANGED <<queue, processing, failed, completed, getting>>
    /\ NotSystem
    /\ UNCHANGED dvars

\* _scan_existing_files, statement by statement for the file it is at.
ScanExistingFiles ==
    /\ phase = "scanning"
    /\ scan.todo # <<>>
    /\ LET p == Head(scan.todo)
       IN CASE p \notin watch ->
                 /\ scan' = [todo |-> Tail(scan.todo), step |-> "size"]
                 /\ UNCHANGED <<file_sizes, processing_files, lastSeen>>
                 /\ UNCHANGED <<queue, processing, failed, completed>>
            [] p \in watch /\ scan.step = "size" ->
                 /\ file_sizes' = [file_sizes EXCEPT ![p] = size[p]]
                 /\ lastSeen' = [lastSeen EXCEPT ![p] = size[p]]
                 /\ scan' = [scan EXCEPT !.step = "add"]
                 /\ UNCHANGED processing_files
                 /\ UNCHANGED <<queue, processing, failed, completed>>
            [] p \in watch /\ scan.step = "add" ->
                 /\ Len(add_file(QM, p, ScanPriority).queue) <= MaxQueue
                 /\ SetQM(add_file(QM, p, ScanPriority))
                 /\ scan' = [scan EXCEPT !.step = "mark"]
                 /\ UNCHANGED <<file_sizes, processing_files, lastSeen>>
            [] OTHER ->
                 /\ processing_files' = processing_files \cup {p}
                 /\ scan' = [todo |-> Tail(scan.todo), step |-> "size"]
                 /\ UNCHANGED <<file_sizes, lastSeen>>
                 /\ UNCHANGED <<queue, processing, failed, completed>>
    /\ UNCHANGED <<phase, handoff, starts, fsvars, apvars, outcome, getting>>
    /\ UNCHANGED <<size, cleared, written>>
    /\ NotSystem

\* _scan_existing_files returns, FileWatcher.start returns, and main calls
\* AudioProcessor.start: the processing thread and the retry thread start.
ProcessorStart ==
    /\ phase = "scanning"
    /\ scan.todo = <<>>
    /\ phase' = "running"
    /\ UNCHANGED <<scan, handoff, starts, fsvars, hvars, apvars, outcome>>
    /\ UNCHANGED <<queue, processing, failed, completed, getting>>
    /\ NotSystem
    /\ UNCHANGED dvars

\* AudioFileHandler._handle_file for an on_created or on_modified event of p.
HandleFile(p) ==
    /\ phase # "new"
    /\ p \in watch
    /\ IF p \in processing_files
       THEN UNCHANGED <<processing_files, file_sizes, lastSeen, queue, processing,
                        failed, completed>>
       ELSE LET r == IsFileReady(file_sizes, p, size[p])
            IN /\ lastSeen' = [lastSeen EXCEPT ![p] = size[p]]
               /\ IF ~r.ready
                  THEN /\ file_sizes' = r.file_sizes
                       /\ UNCHANGED <<processing_files, queue, processing, failed, completed>>
                  ELSE /\ Len(add_file(QM, p, HandlerPriority).queue) <= MaxQueue
                       /\ processing_files' = processing_files \cup {p}
                       /\ SetQM(add_file(QM, p, HandlerPriority))
                       /\ file_sizes' = [r.file_sizes EXCEPT ![p] = NoSize]
    /\ UNCHANGED <<fsvars, fwvars, apvars, outcome, getting>>
    /\ UNCHANGED <<size, cleared, written>>
    /\ NotSystem

\* FileWatcher._process_queue: get_next_file's self._queue.get.
ProcessQueueGet(t) ==
    /\ phase # "new"
    /\ handoff = NoPath
    /\ GetNextFileGet(t)
    /\ UNCHANGED sysvars
    /\ NotSystem
    /\ UNCHANGED dvars

\* get_next_file records the path in _processing and returns it.
ProcessQueueReturn(t) ==
    /\ phase # "new"
    /\ handoff = NoPath
    /\ handoff' = getting[t].file_path
    /\ GetNextFileReturn(t)
    /\ UNCHANGED <<phase, scan, starts, fsvars, hvars, apvars, outcome>>
    /\ NotSystem
    /\ UNCHANGED dvars

\* self.processor.add_file(file_path): AudioProcessor.add_file.  It tests
\* Path.exists and puts into an unbounded Queue; neither raises, so the except
\* branch of _process_queue (mark_failed) is never taken.
ProcessorAddFile ==
    /\ handoff # NoPath
    /\ Len(process_queue) < MaxProcessQueue
    /\ process_queue' = IF handoff \in watch THEN Append(process_queue, handoff)
                        ELSE process_queue
    /\ handoff' = NoPath
    /\ UNCHANGED <<phase, scan, starts, fsvars, hvars, failed_queue, run, retry_failed, diarization_enabled, outcome>>
    /\ UNCHANGED <<queue, processing, failed, completed, getting>>
    /\ NotSystem
    /\ UNCHANGED dvars

\* _process_loop: self.process_queue.get and the test before _process_file.
ProcessLoopGet ==
    /\ phase = "running"
    /\ run["processing_thread"] = NoRun
    /\ process_queue # <<>>
    /\ process_queue' = Tail(process_queue)
    /\ run' = IF Head(process_queue) \in watch
              THEN [run EXCEPT !["processing_thread"] =
                                  Run(Head(process_queue), "validate", FALSE, FALSE, 0)]
              ELSE run
    /\ UNCHANGED <<failed_queue, retry_failed, diarization_enabled, fsvars, hvars, fwvars, outcome>>
    /\ UNCHANGED <<queue, processing, failed, completed, getting>>
    /\ NotSystem
    /\ UNCHANGED dvars

\* _retry_loop: self.failed_queue.get and the two tests before _process_file;
\* elapsed: retry_delay has passed since last_attempt.
RetryLoopGet(elapsed) ==
    /\ phase = "running"
    /\ retry_failed
    /\ run["retry_thread"] = NoRun
    /\ failed_queue # <<>>
    /\ LET e == Head(failed_queue)
       IN IF ~elapsed
          THEN /\ failed_queue' = Append(Tail(failed_queue), e)
               /\ UNCHANGED run
          ELSE /\ failed_queue' = Tail(failed_queue)
               /\ run' = IF e.file_path \in watch
                         THEN [run EXCEPT !["retry_thread"] =
                                   Run(e.file_path, "validate", FALSE, FALSE, e.retry_count)]
                         ELSE run
    /\ UNCHANGED <<process_queue, retry_failed, diarization_enabled, fsvars, hvars, fwvars, outcome>>
    /\ UNCHANGED <<queue, processing, failed, completed, getting>>
    /\ NotSystem
    /\ UNCHANGED dvars

\* A step of _process_file goes through: the run is at the next step.  what
\* says whether the step had work to do (the file needed conversion, the file
\* needed chunking).
StepDone(t, what) ==
    LET r == run[t]
        p == r.file_path
    IN /\ r.stage \in {"validate", "convert", "chunk", "diarize", "transcribe",
                       "generate", "archive"}
       /\ r.stage \in {"validate", "archive"} => p \in watch
       /\ r.stage = "generate" => ~GenerateRaises(DiarizationResult(diarization_enabled))
       /\ run' = [run EXCEPT ![t] =
                     [r EXCEPT !.stage = StageAfter(r.stage, diarization_enabled),
                               !.converted = IF r.stage = "convert" THEN what ELSE @,
                               !.chunks = IF r.stage = "chunk" THEN what ELSE @]]
       /\ temp' = CASE r.stage = "convert" /\ what -> temp \cup {TempFile(p, "converted")}
                    [] r.stage = "chunk" /\ what -> temp \cup {TempFile(p, "chunk")}
                    [] OTHER -> temp
       /\ archive' = IF r.stage = "archive" THEN archive \cup {p} ELSE archive
       /\ UNCHANGED <<watch, failed_folder, hvars, fwvars, process_queue, failed_queue,
                      retry_failed, diarization_enabled, outcome>>
       /\ UNCHANGED <<queue, processing, failed, completed, getting>>
       /\ NotSystem
       /\ UNCHANGED dvars

\* The last step of _process_file goes through: the temporary files are
\* deleted, the run has succeeded and the thread is back in its loop.
RunSucceeds(t) ==
    LET r == run[t]
    IN /\ r.stage = "cleanup"
       /\ temp' = temp \ TempFilesOf(r)
       /\ run' = [run EXCEPT ![t] = NoRun]
       /\ outcome' = [outcome EXCEPT ![r.file_path] = "success"]
       /\ UNCHANGED <<watch, archive, failed_folder, hvars, fwvars, process_queue,
                      failed_queue, retry_failed, diarization_enabled>>
       /\ UNCHANGED <<queue, processing, failed, completed, getting>>
       /\ NotSystem
       /\ UNCHANGED dvars

\* _move_to_failed: [watch, failed_folder]; moved: shutil.move goes through
\* (an exception of it is logged and dropped).
MoveToFailed(file_path, moved) ==
    IF moved /\ file_path \in watch
    THEN [watch |-> watch \ {file_path}, failed_folder |-> failed_folder \cup {file_path}]
    ELSE [watch |-> watch, failed_folder |-> failed_folder]

\* A step of _process_file raises: the except block clears the path from the
\* handler's _processing_files, the run has failed, and the thread's loop
\* queues the retry or moves the file to the Failed folder.
RunFails(t, moved) ==
    LET r == run[t]
        p == r.file_path
        again == IF t = "processing_thread" THEN retry_failed
                 ELSE r.retry_count < ConfigMaxRetries
        m == IF t = "retry_thread" /\ ~again THEN MoveToFailed(p, moved)
             ELSE MoveToFailed(p, FALSE)
    IN /\ r.stage # "idle"
       /\ r.stage = "cleanup" => TempFilesOf(r) # {}
       /\ again => Len(failed_queue) < MaxFailedQueue
       /\ processing_files' = processing_files \ {p}
       /\ cleared' = [cleared EXCEPT ![p] = TRUE]
       /\ UNCHANGED <<size, lastSeen, written>>
       /\ run' = [run EXCEPT ![t] = NoRun]
       /\ outcome' = [outcome EXCEPT ![p] = "failed"]
       /\ failed_queue' =
             IF again
             THEN Append(failed_queue,
                         FailedEntry(p, IF t = "processing_thread" THEN 1
                                        ELSE r.retry_count + 1))
             ELSE failed_queue
       /\ watch' = m.watch
       /\ failed_folder' = m.failed_folder
       /\ UNCHANGED <<archive, temp, file_sizes, fwvars, process_queue, retry_failed, diarization_enabled>>
       /\ UNCHANGED <<queue, processing, failed, completed, getting>>
       /\ NotSystem

\* The program is stopped (ObsidianScribe.stop, then the process ends and its
\* daemon threads with it) and constructed anew: what was in memory is gone,
\* the folders are as they were.
Restart ==
    /\ phase = "running"
    /\ queue' = <<>>
    /\ processing' = {}
    /\ failed' = [p \in Paths |-> 0]
    /\ completed' = {}
    /\ getting' = [t \in Getters |-> NoItem]
    /\ processing_files' = {}
    /\ file_sizes' = [p \in Paths |-> NoSize]
    /\ lastSeen' = [p \in Paths |-> NoSize]
    /\ cleared' = [p \in Paths |-> FALSE]
    /\ UNCHANGED <<size, written>>
    /\ phase' = "new"
    /\ scan' = [todo |-> <<>>, step |-> "size"]
    /\ handoff' = NoPath
    /\ process_queue' = <<>>
    /\ failed_queue' = <<>>
    /\ run' = [t \in Workers |-> NoRun]
    /\ UNCHANGED <<starts, retry_failed, diarization_enabled, fsvars, outcome>>
    /\ NotSystem

SysNext ==
    \/ Restart
    \/ \E p \in Recordings : CreateFile(p)
    \/ FileWatcherStart
    \/ ScanExistingFiles
    \/ ProcessorStart
    \/ \E p \in Recordings : HandleFile(p)
    \/ \E t \in Getters : ProcessQueueGet(t)
    \/ \E t \in Getters : ProcessQueueReturn(t)
    \/ ProcessorAddFile
    \/ ProcessLoopGet
    \/ \E elapsed \in BOOLEAN : RetryLoopGet(elapsed)
    \/ \E t \in Workers, what \in BOOLEAN : StepDone(t, what)
    \/ \E t \in Workers : RunSucceeds(t)
    \/ \E t \in Workers, moved \in BOOLEAN : RunFails(t, moved)

SpecSys == SysInit /\ [][SysNext]_vars

\* ------------------------------------------------------------ spec: the alignment
\* TranscriptGenerator._align_segments and _group_by_speaker as generate
\* calls them, on every pair of short segment lists and on the lists of the
\* specification's example.
Max(a, b) == IF a >= b THEN a ELSE b
Min(a, b) == IF a <= b THEN a ELSE b

SpeakerSeg(start, end, speaker) == [start |-> start, end |-> end, speaker |-> speaker]
TransSeg(start, end) == [start |-> start, end |-> end]

SeqsUpTo(S, n) == UNION {[1..k -> S] : k \in 0..n}

SpeakerSegs == {seg \in [start : Times, end : Times, speaker : Speakers] :
                   seg.start < seg.end}
TransSegs == {seg \in [start : Times, end : Times] : seg.start < seg.end}

ExampleSpeakerSegments == <<SpeakerSeg(0, 10, "A"), SpeakerSeg(10, 20, "B")>>
ExampleTranscriptionSegments == <<TransSeg(0, 5), TransSeg(6, 9), TransSeg(11, 19)>>

\* best_speaker before any speaker segment matched.
NoSpeaker == "None"

\* The inner loop of _align_segments over speaker_segs[i..]: the best speaker
\* so far is replaced only by a strictly larger overlap.
RECURSIVE BestSpeakerLoop(_, _, _, _, _)
BestSpeakerLoop(trans_seg, speaker_segs, i, best_speaker, best_overlap) ==
    IF i > Len(speaker_segs) THEN best_speaker
    ELSE LET speaker_seg == speaker_segs[i]
             overlap_start == Max(trans_seg.start, speaker_seg.start)
             overlap_end == Min(trans_seg.end, speaker_seg.end)
             overlap_duration == Max(0, overlap_end - overlap_start)
         IN IF overlap_duration > best_overlap
            THEN BestSpeakerLoop(trans_seg, speaker_segs, i + 1,
                                 speaker_seg.speaker, overlap_duration)
            ELSE BestSpeakerLoop(trans_seg, speaker_segs, i + 1,
                                 best_speaker, best_overlap)

\* The inner loop with >= for >: the last of several largest overlaps wins.
BestSpeakerLast(trans_seg, speaker_segs) ==
    LET overlap(i) == Max(0, Min(trans_seg.end, speaker_segs[i].end)
                               - Max(trans_seg.start, speaker_segs[i].start))
        best == {i \in 1..Len(speaker_segs) :
                    /\ overlap(i) > 0
                    /\ \A j \in 1..Len(speaker_segs) : overlap(j) <= overlap(i)}
    IN IF best = {} THEN NoSpeaker
       ELSE speaker_segs[CHOOSE i \in best : \A j \in best : j <= i].speaker

BestSpeaker(trans_seg, speaker_segs) ==
    BestSpeakerLoop(trans_seg, speaker_segs, 1, NoSpeaker, 0)

\* An alignment that leaves out the segments no speaker overlaps.
AlignSegmentsOverlappingOnly(speaker_segs, trans_segs) ==
    IF speaker_segs = <<>>
    THEN [i \in 1..Len(trans_segs) |->
             [speaker |-> "SPEAKER_0", start |-> trans_segs[i].start,
              end |-> trans_segs[i].end]]
    ELSE LET kept == SelectSeq(trans_segs,
                               LAMBDA seg : BestSpeaker(seg, speaker_segs) # NoSpeaker)
         IN [i \in 1..Len(kept) |->
                [speaker |-> BestSpeaker(kept[i], speaker_segs),
                 start |-> kept[i].start, end |-> kept[i].end]]

\* _align_segments: the aligned segments, in the order of the transcription's.
AlignSegments(speaker_segs, trans_segs) ==
    IF speaker_segs = <<>>
    THEN [i \in 1..Len(trans_segs) |->
             [speaker |-> "SPEAKER_0", start |-> trans_segs[i].start,
              end |-> trans_segs[i].end]]
    ELSE [i \in 1..Len(trans_segs) |->
             LET best_speaker == BestSpeaker(trans_segs[i], speaker_segs)
             IN [speaker |-> IF best_speaker = NoSpeaker THEN "UNKNOWN" ELSE best_speaker,
                 start |-> trans_segs[i].start, end |-> trans_segs[i].end]]

\* A group of _group_by_speaker.
Group(segments) ==
    [segments |-> segments, start |-> segments[1].start,
     end |-> segments[Len(segments)].end]

\* A save that puts the segments of a speaker's later turn into the speaker's
\* first group.
SaveGroupMerged(groups, current_speaker, current_group) ==
    IF current_speaker # NoSpeaker /\ current_group # <<>>
    THEN IF current_speaker \in DOMAIN groups
         THEN [groups EXCEPT ![current_speaker] =
                  <<Group(@[1].segments \o current_group)>>]
         ELSE [sp \in DOMAIN groups \cup {current_speaker} |->
                  IF sp = current_speaker THEN <<Group(current_group)>> ELSE groups[sp]]
    ELSE groups

\* groups with the current group saved under its speaker.
SaveGroup(groups, current_speaker, current_group) ==
    IF current_speaker # NoSpeaker /\ current_group # <<>>
    THEN IF current_speaker \in DOMAIN groups
         THEN [groups EXCEPT ![current_speaker] = Append(@, Group(current_group))]
         ELSE [sp \in DOMAIN groups \cup {current_speaker} |->
                  IF sp = current_speaker THEN <<Group(current_group)>> ELSE groups[sp]]
    ELSE groups

\* The loop of _group_by_speaker over segments[i..] and the save after it.
RECURSIVE GroupLoop(_, _, _, _, _)
GroupLoop(segments, i, groups, current_speaker, current_group) ==
    IF i > Len(segments) THEN SaveGroup(groups, current_speaker, current_group)
    ELSE IF segments[i].speaker # current_speaker
         THEN GroupLoop(segments, i + 1,
                        SaveGroup(groups, current_speaker, current_group),
                        segments[i].speaker, <<segments[i]>>)
         ELSE GroupLoop(segments, i + 1, groups, current_speaker,
                        Append(current_group, segments[i]))

\* _group_by_speaker: speaker -> the groups of the speaker, oldest first.
NoGroups == [sp \in {} |-> <<>>]
GroupBySpeaker(segments) == GroupLoop(segments, 1, NoGroups, NoSpeaker, <<>>)

AlignInit ==
    /\ QueueInit
    /\ UtilsIdle
    /\ StateIdle
    /\ SystemIdle
    /\ \/ /\ speaker_segments \in SeqsUpTo(SpeakerSegs, MaxSpeakerSegments)
          /\ transcription_segments \in SeqsUpTo(TransSegs, MaxTranscriptionSegments)
       \/ /\ speaker_segments = ExampleSpeakerSegments
          /\ transcription_segments = ExampleTranscriptionSegments
    /\ aligned_segments = <<>>
    /\ speaker_groups = NoGroups
    /\ chunk_results = <<>>
    /\ transcription_result = <<>>
    /\ fpc = "generate"

NotFunctions == UNCHANGED <<qvars, qhist, stvars, sthist, sysvars, dvars, uvars>>

\* generate's call of _align_segments.
AlignSegmentsCall ==
    /\ fpc = "generate"
    /\ aligned_segments' = AlignSegments(speaker_segments, transcription_segments)
    /\ fpc' = "aligned"
    /\ UNCHANGED <<speaker_segments, transcription_segments, speaker_groups,
                   chunk_results, transcription_result>>
    /\ NotFunctions

\* generate's call of _group_by_speaker.
GroupBySpeakerCall ==
    /\ fpc = "aligned"
    /\ speaker_groups' = GroupBySpeaker(aligned_segments)
    /\ fpc' = "grouped"
    /\ UNCHANGED <<speaker_segments, transcription_segments, aligned_segments,
                   chunk_results, transcription_result>>
    /\ NotFunctions

AlignNext == AlignSegmentsCall \/ GroupBySpeakerCall

SpecAlign == AlignInit /\ [][AlignNext]_vars

\* ------------------------------------------------------------ spec: the chunks
\* AudioProcessor._transcribe_chunks on every short list of results the
\* transcriber may return for the chunks.  A result is a dict; Missing and
\* NoLanguage stand for a key the dict does not have.  A text is a sequence
\* of characters.
Missing == <<"missing">>
NoLanguage == "missing"
Texts == {<<"a">>, <<"b">>}
SegmentLists == {<<>>, <<"s">>, <<"t">>}
Languages == {"en", "de"}

ChunkResults ==
    [text : Texts \cup {Missing}, segments : SegmentLists \cup {Missing},
     language : Languages \cup {NoLanguage}]

\* dict.get(key, default).
Get(value, default) == IF value = Missing THEN default ELSE value
GetLanguage(value, default) == IF value = NoLanguage THEN default ELSE value

\* ' '.join(texts).
RECURSIVE Join(_)
Join(texts) ==
    IF texts = <<>> THEN <<>>
    ELSE IF Len(texts) = 1 THEN texts[1]
    ELSE texts[1] \o <<" ">> \o Join(Tail(texts))

\* The locals of _transcribe_chunks before chunk i is transcribed.
Locals(i, all_segments, full_text) ==
    [i |-> i, all_segments |-> all_segments, full_text |-> full_text]

ChunksInit ==
    /\ QueueInit
    /\ UtilsIdle
    /\ StateIdle
    /\ SystemIdle
    /\ speaker_segments = <<>>
    /\ transcription_segments = <<>>
    /\ aligned_segments = <<>>
    /\ speaker_groups = <<>>
    /\ chunk_results \in SeqsUpTo(ChunkResults, MaxChunks) \ {<<>>}
    /\ transcription_result = Locals(1, <<>>, <<>>)
    /\ fpc = "chunks"

\* One turn of the loop: the transcriber is called for chunk i and its result
\* is taken in if it is not empty and has segments.
TranscribeChunk ==
    /\ fpc = "chunks"
    /\ transcription_result.i <= Len(chunk_results)
    /\ LET l == transcription_result
           chunk_result == chunk_results[l.i]
       IN transcription_result' =
             IF chunk_result.segments # Missing
             THEN Locals(l.i + 1, l.all_segments \o chunk_result.segments,
                         Append(l.full_text, Get(chunk_result.text, <<>>)))
             ELSE Locals(l.i + 1, l.all_segments, l.full_text)
    /\ UNCHANGED <<speaker_segments, transcription_segments, aligned_segments,
                   speaker_groups, chunk_results, fpc>>
    /\ NotFunctions

\* The return statement: the language is asked of the last chunk's result.
TranscribeChunksReturn ==
    /\ fpc = "chunks"
    /\ transcription_result.i > Len(chunk_results)
    /\ transcription_result' =
          [text |-> Join(transcription_result.full_text),
           segments |-> transcription_result.all_segments,
           language |-> GetLanguage(chunk_results[Len(chunk_results)].language, "en")]
    /\ fpc' = "returned"
    /\ UNCHANGED <<speaker_segments, transcription_segments, aligned_segments,
                   speaker_groups, chunk_results>>
    /\ NotFunctions

ChunksNext == TranscribeChunk \/ TranscribeChunksReturn

SpecChunks == ChunksInit /\ [][ChunksNext]_vars

\* ---- spec: retry_with_backoff ----
\* The wrapper that retry_with_backoff(max_retries, initial_delay,
\* backoff_factor, max_delay, exceptions) puts around func.  Delays are whole
\* numbers.  A call of func returns ("ok"), raises one of the listed
\* exceptions ("listed") or raises another exception ("unlisted").
BackoffFactors == {1, 2}
FuncOutcomes == {"ok", "listed", "unlisted"}
RetryArgs ==
    [max_retries : -1..MaxRetriesArg, initial_delay : 1..MaxDelay,
     backoff_factor : BackoffFactors, max_delay : 1..MaxDelay]

NotUtils == UNCHANGED <<qvars, qhist, stvars, sthist, sysvars, dvars, fvars>>

\* The wrapper is entered: delay = initial_delay, and the loop begins.
RetryInit ==
    /\ QueueInit
    /\ FunctionsIdle
    /\ StateIdle
    /\ SystemIdle
    /\ CacheIdle
    /\ retry_args \in RetryArgs
    /\ attempt = 0
    /\ delay = retry_args.initial_delay
    /\ call_count = 0
    /\ sleeps = <<>>
    /\ retry_result = [how |-> "running", call |-> 0]

\* One turn of "for attempt in range(max_retries + 1)": func is called; its
\* result is returned, an exception that is not listed leaves the wrapper, a
\* listed one is re-raised in the last turn and slept on otherwise.
WrapperAttempt(outcome_of_call) ==
    /\ retry_result.how = "running"
    /\ attempt <= retry_args.max_retries
    /\ call_count' = call_count + 1
    /\ IF outcome_of_call = "ok"
       THEN /\ retry_result' = [how |-> "returned", call |-> call_count + 1]
            /\ UNCHANGED <<attempt, delay, sleeps>>
       ELSE IF outcome_of_call = "unlisted" \/ attempt = retry_args.max_retries
       THEN /\ retry_result' = [how |-> "raised", call |-> call_count + 1]
            /\ UNCHANGED <<attempt, delay, sleeps>>
       ELSE /\ sleeps' = Append(sleeps, delay)
            /\ delay' = Min(delay * retry_args.backoff_factor, retry_args.max_delay)
            /\ attempt' = attempt + 1
            /\ UNCHANGED retry_result
    /\ UNCHANGED <<retry_args, cvars>>
    /\ NotUtils

\* range(max_retries + 1) is empty: the loop body never runs, last_exception
\* is None and the wrapper returns None.
WrapperFallsThrough ==
    /\ retry_result.how = "running"
    /\ attempt > retry_args.max_retries
    /\ retry_result' = [how |-> "returned None", call |-> 0]
    /\ UNCHANGED <<retry_args, attempt, delay, call_count, sleeps, cvars>>
    /\ NotUtils

RetryNext ==
    \/ \E outcome_of_call \in FuncOutcomes : WrapperAttempt(outcome_of_call)
    \/ WrapperFallsThrough

SpecRetry == RetryInit /\ [][RetryNext]_vars

\* ------------------------------------------------------------ spec: the detector
\* The watcher alone: the startup scan, the observer's events, writers that
\* change a file's size, and a consumer that calls clear_processing_file.
\* Nothing takes items out of the queue, so the queue holds every item that
\* was ever put into it.
DetectInit ==
    /\ QueueInit
    /\ UtilsIdle
    /\ FunctionsIdle
    /\ StateIdle
    /\ watch \in SUBSET Paths
    /\ archive = {}
    /\ failed_folder = {}
    /\ temp = {}
    /\ processing_files = {}
    /\ file_sizes = [p \in Paths |-> NoSize]
    /\ phase = "new"
    /\ scan = [todo |-> <<>>, step |-> "size"]
    /\ handoff = NoPath
    /\ starts = 0
    /\ process_queue = <<>>
    /\ failed_queue = <<>>
    /\ run = [t \in Workers |-> NoRun]
    /\ retry_failed = FALSE
    /\ diarization_enabled = TRUE
    /\ outcome = [p \in Paths |-> "none"]
    /\ DetectorInit

\* A writer changes the size of a file in the watch folder.
WriteFile(p, new_size) ==
    /\ p \in watch
    /\ new_size # size[p]
    /\ size' = [size EXCEPT ![p] = new_size]
    /\ written' = [written EXCEPT ![p] = TRUE]
    /\ UNCHANGED <<lastSeen, cleared, sysvars>>
    /\ UNCHANGED <<queue, processing, failed, completed, getting>>
    /\ NotSystem

\* AudioFileHandler.clear_processing_file, called by a consumer.
ClearProcessingFile(p) ==
    /\ p \in processing_files
    /\ processing_files' = processing_files \ {p}
    /\ cleared' = [cleared EXCEPT ![p] = TRUE]
    /\ UNCHANGED <<size, lastSeen, written>>
    /\ UNCHANGED <<file_sizes, fsvars, fwvars, apvars, outcome>>
    /\ UNCHANGED <<queue, processing, failed, completed, getting>>
    /\ NotSystem

DetectNext ==
    \/ \E p \in Paths : CreateFile(p)
    \/ FileWatcherStart
    \/ ScanExistingFiles
    \/ \E p \in Paths : HandleFile(p)
    \/ \E p \in Paths, new_size \in 1..MaxSize : WriteFile(p, new_size)
    \/ \E p \in Paths : ClearProcessingFile(p)

SpecDetect == DetectInit /\ [][DetectNext]_vars

\* ------------------------------------------------------------ spec: the processor
\* The AudioProcessor alone, started, with every recording in the watch
\* folder: a caller hands it files with add_file, its threads run them, and
\* stop may be called at any time.
RunInit ==
    /\ QueueInit
    /\ UtilsIdle
    /\ FunctionsIdle
    /\ StateIdle
    /\ watch = Paths
    /\ archive = {}
    /\ failed_folder = {}
    /\ temp = {}
    /\ processing_files = {}
    /\ file_sizes = [p \in Paths |-> NoSize]
    /\ phase = "running"
    /\ scan = [todo |-> <<>>, step |-> "size"]
    /\ handoff = NoPath
    /\ starts = 1
    /\ process_queue = <<>>
    /\ failed_queue = <<>>
    /\ run = [t \in Workers |-> NoRun]
    /\ retry_failed \in BOOLEAN
    /\ diarization_enabled \in BOOLEAN
    /\ outcome = [p \in Paths |-> "none"]
    /\ DetectorInit

\* AudioProcessor.add_file(p); the caller hands over a recording once.
AddFile(p) ==
    /\ phase = "running"
    /\ p \in watch
    /\ outcome[p] = "none"
    /\ \A i \in 1..Len(process_queue) : process_queue[i] # p
    /\ \A t \in Workers : run[t].file_path # p
    /\ Len(process_queue) < MaxProcessQueue
    /\ process_queue' = Append(process_queue, p)
    /\ UNCHANGED <<failed_queue, run, retry_failed, diarization_enabled>>
    /\ UNCHANGED <<fsvars, hvars, fwvars, outcome>>
    /\ UNCHANGED <<queue, processing, failed, completed, getting>>
    /\ NotSystem
    /\ UNCHANGED dvars

\* AudioProcessor.stop up to its first join: _running is False and
\* _stop_event is set.
Stop ==
    /\ phase = "running"
    /\ phase' = "stopping"
    /\ UNCHANGED <<scan, handoff, starts, fsvars, hvars, apvars, outcome>>
    /\ UNCHANGED <<queue, processing, failed, completed, getting>>
    /\ NotSystem
    /\ UNCHANGED dvars

RunNext ==
    \/ \E p \in Paths : AddFile(p)
    \/ ProcessLoopGet
    \/ \E elapsed \in BOOLEAN : RetryLoopGet(elapsed)
    \/ \E t \in Workers, what \in BOOLEAN : StepDone(t, what)
    \/ \E t \in Workers : RunSucceeds(t)
    \/ \E t \in Workers, moved \in BOOLEAN : RunFails(t, moved)
    \/ Stop

SpecRun == RunInit /\ [][RunNext]_vars

\* ------------------------------------------------------------ claims: StateManager
NonTerminal == {"queued", "processing", "diarizing", "transcribing", "generating"}

Occurrences(list, x) == Cardinality({i \in 1..Len(list) : list[i] = x})

\* C6: when recover_interrupted is the one call made since construction and it
\* has returned, every path whose entry at startup was in a non-terminal state
\* (queued, processing, diarizing, transcribing, generating) is in the returned
\* list exactly once, has no entry in current_state any more, and has its open
\* row closed as failed with the restart message.
C6_RecoverInterrupted ==
    (ncalls = 1 /\ lastRecover # NotReturned)
        => \A p \in Paths :
              startup[p] \in NonTerminal
                  => /\ Occurrences(lastRecover, p) = 1
                     /\ current_state[p] = Absent
                     /\ OpenRows(history, p) = {}
                     /\ \E i \in 1..Len(history) :
                           /\ history[i].file_path = p
                           /\ history[i].state = "failed"
                           /\ history[i].completed
                           /\ history[i].error_message = RestartError

\* C7: every path has at most one open row in processing_history at any time,
\* whatever calls of start_processing, update_state, complete_processing and
\* recover_interrupted are made (start_processing twice for one path included),
\* and a step that changes a row changes only the most recent open row of its
\* path; no row is ever removed.
MostRecentOpen(h, file_path) ==
    CHOOSE i \in OpenRows(h, file_path) : \A j \in OpenRows(h, file_path) : j <= i

Quiescent ==
    /\ phase = "running"
    /\ queue = <<>>
    /\ \A t \in Getters : getting[t] = NoItem
    /\ handoff = NoPath
    /\ process_queue = <<>>
    /\ failed_queue = <<>>
    /\ \A t \in Workers : run[t] = NoRun

\* C3: the processing thread and the retry thread are never both inside
\* _process_file for the same path.
C3_OneRunPerPath ==
    \A t1, t2 \in Workers :
        (t1 # t2 /\ run[t1] # NoRun) => run[t1].file_path # run[t2].file_path

\* C4: every path that get_next_file returned leaves the QueueManager's
\* in-flight set once its run has ended: when the program has nothing left to
\* do, no path is in _processing.
C4_InFlightReleased ==
    Quiescent => processing = {}

\* C5: a file whose last run failed is not left behind in the watch folder:
\* when the program has nothing left to do (no retry pending, no run under
\* way), the file is in the Failed folder and no longer in the watch folder.
C5_FailedFileNotDropped ==
    Quiescent =>
        \A p \in Paths :
            outcome[p] = "failed" => (p \notin watch /\ p \in failed_folder)

\* C8: when a run of _process_file ends, by success or by failure at any
\* step, none of the temporary converted and chunk files it created is left.
C8_TempFilesDeleted ==
    [][\A t \in Workers :
          (run[t] # NoRun /\ run'[t] = NoRun /\ phase' = "running")
              => TempFilesOf(run[t]) \cap temp' = {}]_vars

\* C9: after a run of p has succeeded, p is no longer in the watch folder.
C9_OriginalMoved ==
    \A p \in Paths : outcome[p] = "success" => p \notin watch


\* ------------------------------------------------------------ claims: the detector
\* The handler has put p into _processing_files: it is at its call of add_file.
HandlerEnqueues(p) ==
    /\ HandleFile(p)
    /\ p \notin processing_files
    /\ p \in processing_files'

C15_QuiescentEnqueuedOnce ==
    \A p \in Paths :
        ~written[p] /\ ~cleared[p] => Cardinality(ItemsOf(queue, p)) <= 1


\* The handler's event for p is a stable observation: p is not marked as in
\* processing and the size recorded for it is the size it has.
StableObservation(p) ==
    /\ HandleFile(p)
    /\ p \notin processing_files
    /\ file_sizes[p] # NoSize
    /\ file_sizes[p] = size[p]

\* C16: once a run of p has failed and clear_processing_file(p) was called,
\* the handler's next stable observation of p puts a new item for p into the
\* queue.
C16_ClearedFileRequeued ==
    [][\A p \in Recordings :
          (StableObservation(p) /\ outcome[p] = "failed" /\ cleared[p])
              => Cardinality(ItemsOf(queue', p)) > Cardinality(ItemsOf(queue, p))]_vars


\* ------------------------------------------------------------ claims: the run
\* The order in which the stages of a run are to start.
StageOrder ==
    <<"validate", "convert", "chunk", "diarize", "transcribe", "generate", "archive">>

\* The place of a stage in StageOrder; the clean-up comes after all of them.
StagePos(stage) ==
    IF \E j \in 1..Len(StageOrder) : StageOrder[j] = stage
    THEN CHOOSE j \in 1..Len(StageOrder) : StageOrder[j] = stage
    ELSE Len(StageOrder) + 1

\* The stages a run leaves out when it goes from stage from to stage to.
StagesBetween(from, to) ==
    {StageOrder[j] : j \in {k \in 1..Len(StageOrder) : StagePos(from) < k /\ k < StagePos(to)}}

\* C17: a run starts with validate; it goes to another stage only when the
\* stage it is in has finished without error, and then to a later stage of
\* the fixed order, leaving out nothing but a disabled diarization; a run in
\* which a stage fails is over and starts no further stage.
C17_StagesInOrder ==
    [][\A t \in Workers :
          /\ (run[t] = NoRun /\ run'[t] # NoRun) => run'[t].stage = "validate"
          /\ (run[t] # NoRun /\ run'[t] # NoRun /\ run'[t].stage # run[t].stage)
                => /\ \E what \in BOOLEAN : StepDone(t, what)
                   /\ run'[t].file_path = run[t].file_path
                   /\ StagePos(run'[t].stage) > StagePos(run[t].stage)
                   /\ StagesBetween(run[t].stage, run'[t].stage)
                         \subseteq (IF diarization_enabled THEN {} ELSE {"diarize"})
          /\ (run[t] # NoRun /\ \E moved \in BOOLEAN : RunFails(t, moved))
                => run'[t] = NoRun]_vars

\* A run that needed chunking and left out the disabled diarization has got
\* through the transcription.
C17_Witness ==
    /\ ~diarization_enabled
    /\ run["processing_thread"].stage = "generate"
    /\ run["processing_thread"].chunks
    /\ run["retry_thread"] = NoRun

\* C18: once stop is signalled, a thread in the middle of a run finishes the
\* stage it is in and starts no further stage of that run.
C18_NoStageAfterStop ==
    [][\A t \in Workers :
          (phase = "stopping" /\ run[t] # NoRun /\ run'[t] # NoRun)
              => run'[t].stage = run[t].stage]_vars

\* The threads that are inside _process_file.
RunsInProgress == {t \in Workers : run[t] # NoRun}

\* C19: at most one run is in progress at any time: the processing thread
\* and the retry thread are never both inside a run.
C19_OneRunAtATime == Cardinality(RunsInProgress) <= 1


\* C20: with diarization disabled, a run that has got through validation and
\* transcription has its transcript generated: the generator, called with no
\* diarization result, does not raise.
C20_GenerateWithoutDiarization ==
    \A t \in Workers :
        (~diarization_enabled /\ run[t].stage = "generate")
            => ~GenerateRaises(DiarizationResult(diarization_enabled))


\* ------------------------------------------------------------ claims: the alignment
\* The aligned segments without their speakers.
Plain(segments) ==
    [i \in 1..Len(segments) |-> TransSeg(segments[i].start, segments[i].end)]

\* C21: with no diarization segments the alignment yields exactly one turn,
\* of the speaker "Speaker 1", that holds all transcript segments in their
\* order.
C21_OneSyntheticTurn ==
    (fpc = "grouped" /\ speaker_segments = <<>>)
        => /\ DOMAIN speaker_groups = {"Speaker 1"}
           /\ Len(speaker_groups["Speaker 1"]) = 1
           /\ Plain(speaker_groups["Speaker 1"][1].segments) = transcription_segments

\* The overlap of the i-th transcript segment with the j-th speaker segment.
OverlapOf(i, j) ==
    Max(0, Min(transcription_segments[i].end, speaker_segments[j].end)
             - Max(transcription_segments[i].start, speaker_segments[j].start))

\* The speaker segments with the largest overlap with the i-th transcript
\* segment, if any overlaps it at all.
LargestOverlaps(i) ==
    {j \in 1..Len(speaker_segments) :
        /\ OverlapOf(i, j) > 0
        /\ \A k \in 1..Len(speaker_segments) : OverlapOf(i, k) <= OverlapOf(i, j)}

\* C22: with diarization segments, every transcript segment is kept with its
\* times and gets the speaker of the speaker segment with the largest
\* overlap, the earliest in input order among several; a transcript segment
\* that no speaker segment overlaps gets the speaker "UNKNOWN".
C22_LargestOverlapFirstWins ==
    (fpc \in {"aligned", "grouped"} /\ speaker_segments # <<>>)
        => /\ Plain(aligned_segments) = transcription_segments
           /\ \A i \in 1..Len(transcription_segments) :
                 IF LargestOverlaps(i) = {}
                 THEN aligned_segments[i].speaker = "UNKNOWN"
                 ELSE \E j \in LargestOverlaps(i) :
                         /\ \A k \in LargestOverlaps(i) : j <= k
                         /\ aligned_segments[i].speaker = speaker_segments[j].speaker

\* Two speaker segments of different speakers overlap a transcript segment
\* equally and the first one's speaker was assigned; another transcript
\* segment overlaps nothing and was kept as UNKNOWN.
C22_Witness ==
    /\ fpc = "aligned"
    /\ Len(speaker_segments) = 2
    /\ speaker_segments[1].speaker # speaker_segments[2].speaker
    /\ \E i \in 1..Len(transcription_segments) :
          /\ LargestOverlaps(i) = {1, 2}
          /\ aligned_segments[i].speaker = speaker_segments[1].speaker
    /\ \E i \in 1..Len(transcription_segments) :
          /\ LargestOverlaps(i) = {}
          /\ aligned_segments[i].speaker = "UNKNOWN"

\* The places where a turn starts: the first aligned segment and every
\* aligned segment whose speaker differs from the one before.
TurnStarts ==
    {i \in 1..Len(aligned_segments) :
        i = 1 \/ aligned_segments[i].speaker # aligned_segments[i - 1].speaker}

\* The last segment of the turn that starts at i.
TurnEnd(i) ==
    CHOOSE j \in i..Len(aligned_segments) :
        /\ \A k \in i..j : aligned_segments[k].speaker = aligned_segments[i].speaker
        /\ j = Len(aligned_segments)
              \/ aligned_segments[j + 1].speaker # aligned_segments[i].speaker

\* The turn that starts at i.
TurnAt(i) ==
    [segments |-> SubSeq(aligned_segments, i, TurnEnd(i)),
     start |-> aligned_segments[i].start,
     end |-> aligned_segments[TurnEnd(i)].end]

\* The starts of the turns of speaker sp.
TurnStartsOf(sp) == {i \in TurnStarts : aligned_segments[i].speaker = sp}

\* C23: the groups are the turns: one group for each run of consecutive
\* segments of one speaker, from the first segment's start to the last
\* segment's end, a speaker's groups in the order of their turns, a new one
\* at every change of speaker; the specification's example gives turn A
\* (0, 9) of two segments and turn B (11, 19) of one.
C23_TurnsAreRuns ==
    fpc = "grouped"
        => /\ DOMAIN speaker_groups = {aligned_segments[i].speaker : i \in TurnStarts}
           /\ \A sp \in DOMAIN speaker_groups :
                 /\ Len(speaker_groups[sp]) = Cardinality(TurnStartsOf(sp))
                 /\ \A k \in 1..Len(speaker_groups[sp]) :
                       \E i \in TurnStartsOf(sp) :
                          /\ Cardinality({h \in TurnStartsOf(sp) : h <= i}) = k
                          /\ speaker_groups[sp][k] = TurnAt(i)
           /\ (speaker_segments = ExampleSpeakerSegments
                  /\ transcription_segments = ExampleTranscriptionSegments)
                 => /\ DOMAIN speaker_groups = {"A", "B"}
                    /\ Len(speaker_groups["A"]) = 1 /\ Len(speaker_groups["B"]) = 1
                    /\ speaker_groups["A"][1].start = 0 /\ speaker_groups["A"][1].end = 9
                    /\ Len(speaker_groups["A"][1].segments) = 2
                    /\ speaker_groups["B"][1].start = 11 /\ speaker_groups["B"][1].end = 19
                    /\ Len(speaker_groups["B"][1].segments) = 1

\* A speaker has two turns with another speaker's turn between them.
C23_Witness ==
    /\ fpc = "grouped"
    /\ Len(aligned_segments) = 3
    /\ aligned_segments[1].speaker = aligned_segments[3].speaker
    /\ aligned_segments[1].speaker # aligned_segments[2].speaker
    /\ Len(speaker_groups[aligned_segments[1].speaker]) = 2


\* ------------------------------------------------------------ claims: the chunks
\* The lists of a list, one after another.
RECURSIVE Flatten(_)
Flatten(lists) == IF lists = <<>> THEN <<>> ELSE lists[1] \o Flatten(Tail(lists))

\* The segments of all turns of the given speakers, one list.
RECURSIVE SegmentsOfTurns(_, _)
SegmentsOfTurns(groups, speakers) ==
    IF speakers = {} THEN <<>>
    ELSE LET sp == CHOOSE x \in speakers : TRUE
         IN Flatten([k \in 1..Len(groups[sp]) |-> groups[sp][k].segments])
            \o SegmentsOfTurns(groups, speakers \ {sp})

\* C37: alignment neither drops nor doubles a transcript segment: the
\* segments of all turns together are the input transcript segments, each as
\* often as it is in the input, and every turn holds a stretch of the input in
\* the input's order.
C37_EverySegmentOnce ==
    fpc = "grouped"
        => /\ BagOf(Plain(SegmentsOfTurns(speaker_groups, DOMAIN speaker_groups)))
                 = BagOf(transcription_segments)
           /\ \A sp \in DOMAIN speaker_groups :
                 \A k \in 1..Len(speaker_groups[sp]) :
                    \E i \in 1..Len(transcription_segments) :
                       \E j \in i..Len(transcription_segments) :
                          Plain(speaker_groups[sp][k].segments)
                             = SubSeq(transcription_segments, i, j)

\* Three transcript segments were grouped into turns of two or more speakers,
\* one of them the speaker of the segments that nobody overlaps.
C37_Witness ==
    /\ fpc = "grouped"
    /\ Len(transcription_segments) = 3
    /\ "UNKNOWN" \in DOMAIN speaker_groups
    /\ Cardinality(DOMAIN speaker_groups) >= 2

\* C24: the result of _transcribe_chunks has the texts of all chunks joined by
\* single spaces, the segments of all chunks in chunk order and the language
\* of the last chunk, whatever the transcriber returned for the chunks.
C24_ChunksCombined ==
    fpc = "returned"
        => /\ transcription_result.text =
                 Join([i \in 1..Len(chunk_results) |-> Get(chunk_results[i].text, <<>>)])
           /\ transcription_result.segments =
                 Flatten([i \in 1..Len(chunk_results) |->
                             Get(chunk_results[i].segments, <<>>)])
           /\ transcription_result.language
                 = GetLanguage(chunk_results[Len(chunk_results)].language, "en")


\* ------------------------------------------------------------ claims: the run and the stores
\* The closed records of p in processing_history that say completed.
CompletedRecords(p) ==
    {i \in 1..Len(history) :
        /\ history[i].file_path = p
        /\ history[i].state = "completed"
        /\ history[i].completed}

\* C25: a file whose run has succeeded is in the archive and has exactly one
\* completed record in the state store.
C25_OneCompletedRecord ==
    \A p \in Paths :
        outcome[p] = "success"
            => p \in archive /\ Cardinality(CompletedRecords(p)) = 1


\* The retries of p that wait in failed_queue.
PendingRetries(q, p) == {i \in 1..Len(q) : q[i].file_path = p}

\* C26: a file that fails validation is retried once: when the first retry
\* fails at validation too, no further retry of the file is queued.
C26_ValidationRetriedOnce ==
    [][\A moved \in BOOLEAN :
          (/\ RunFails("retry_thread", moved)
           /\ run["retry_thread"].stage = "validate"
           /\ run["retry_thread"].retry_count = 1)
              => PendingRetries(failed_queue', run["retry_thread"].file_path) = {}]_vars


\* The retries of p that the state shows to have been started: an entry of the
\* failed queue with retry_count k has k - 1 retries behind it, and a run of
\* the retry thread that was taken from an entry with retry_count k is the
\* k-th retry of that entry's file.
RECURSIVE RetriesBehind(_, _)
RetriesBehind(entries, p) ==
    IF entries = <<>> THEN 0
    ELSE (IF Head(entries).file_path = p THEN Head(entries).retry_count - 1 ELSE 0)
         + RetriesBehind(Tail(entries), p)
RetriesStarted(p) ==
    RetriesBehind(failed_queue, p)
    + (IF run["retry_thread"].file_path = p THEN run["retry_thread"].retry_count ELSE 0)

\* C35: a file whose runs all fail is re-run by the retry loop at most
\* max_retries times; after its last failed retry it is moved to the Failed
\* folder and is not put back on the failed queue.
C35_RetriesBounded ==
    /\ \A p \in Paths : RetriesStarted(p) <= ConfigMaxRetries
    /\ \A p \in failed_folder : PendingRetries(failed_queue, p) = {}

\* ------------------------------------------------------------ claims: the state store
\* Thread t has changed the in-memory map and is at its call of
\* _save_current_state.
AtSave(t) == spc[t] = "save"

\* C27: an operation that has changed the in-memory map gets past the write
\* of the state file, failed or not, and on to its history record: a thread
\* at _save_current_state is not kept from going on by a lock it holds itself.
C27_SaveGoesOn ==
    \A t \in StThreads : AtSave(t) => st_lock # t

\* The records of p in processing_history.
RecordsOf(p) == {i \in 1..Len(history) : history[i].file_path = p}

\* Thread t's complete_processing(p) is at _update_daily_stats and p has had
\* neither a current-state entry nor a record during the call.
CompletesUnknown(t) ==
    /\ StStats(t)
    /\ sop[t].op = "complete_processing"
    /\ sop[t].duration = "none"
    /\ ~rec[t].active
    /\ RecordsOf(sop[t].file_path) = {}

\* C30: complete_processing(p) for a p that has no current-state entry and no
\* open record changes no record and leaves total_processed and total_failed
\* as they are.
C30_CompleteUnknownNoOp ==
    [][\A t \in StThreads :
          CompletesUnknown(t) => (history' = history /\ stats' = stats)]_vars

\* C36: a history record that is closed (completed_at set) is never changed
\* again by start_processing, update_state, complete_processing or
\* recover_interrupted, and it stays in the history.
C36_ClosedRecordsKept ==
    [][\A i \in 1..Len(history) :
          history[i].completed
              => i <= Len(history') /\ history'[i] = history[i]]_vars

\* A file's earlier closed record is as it was while a later record of the
\* same file has been closed as failed by a complete_processing.
C36_Witness ==
    \E i, j \in 1..Len(history) :
        /\ i < j
        /\ history[i].file_path = history[j].file_path
        /\ history[i] = Row(history[i].file_path, "completed", TRUE, NoError, "some")
        /\ history[j].completed
        /\ history[j].state = "failed"

\* ---- spec: the StateManager used by one thread ----
\* One thread makes the calls, and a call that can go on does go on: the
\* thread is held up by nothing but the lock.
SoloThread == CHOOSE t \in StThreads : TRUE
StStep(t) == StAcquire(t) \/ StDb(t) \/ StStats(t)
SoloNext ==
    \/ \E c \in StCalls : StCall(SoloThread, c)
    \/ StAcquire(SoloThread)
    \/ StDb(SoloThread)
    \/ StStats(SoloThread)
FairSpecSolo == StInit /\ [][SoloNext]_vars /\ WF_vars(StStep(SoloThread))

\* C32: every call of start_processing, update_state, complete_processing and
\* recover_interrupted returns; no call waits for ever for the lock.
C32_EveryCallReturns ==
    \A t \in StThreads : (spc[t] # "idle") ~> (spc[t] = "idle")

\* ---- spec: the CacheManager ----
\* get and set called in any order while the clock goes on.  The value that
\* set stores is the time of the call, so a value tells its own age.
CacheKeys == {"k1", "k2", "k3"}
Default == -1
CacheArgs ==
    [max_memory_items : 1..MaxMemoryItems, ttl_seconds : 1..MaxTtl,
     enable_disk_cache : BOOLEAN]
Entry(key, value, timestamp) == [key |-> key, value |-> value, timestamp |-> timestamp]
KeysOf(cache) == {cache[i].key : i \in 1..Len(cache)}
IndexOf(cache, key) == CHOOSE i \in 1..Len(cache) : cache[i].key = key
Without(seq, i) == [j \in 1..(Len(seq) - 1) |-> IF j < i THEN seq[j] ELSE seq[j + 1]]

\* _add_to_memory_cache: the first entries are deleted while the cache is at
\* capacity; then the key is assigned, which keeps the place of a key that is
\* still there and puts a new key at the end.
RECURSIVE Evict(_, _)
Evict(cache, max_memory_items) ==
    IF Len(cache) >= max_memory_items /\ cache # <<>>
    THEN Evict(Tail(cache), max_memory_items)
    ELSE cache

add_to_memory_cache(cache, key, value, timestamp, max_memory_items) ==
    LET kept == Evict(cache, max_memory_items)
    IN IF key \in KeysOf(kept)
       THEN [kept EXCEPT ![IndexOf(kept, key)] = Entry(key, value, timestamp)]
       ELSE Append(kept, Entry(key, value, timestamp))

\* The keys in the order of their last use, the least recently used first.
Used(used, key) == Append(SelectSeq(used, LAMBDA k : k # key), key)

CacheInit ==
    /\ QueueInit
    /\ FunctionsIdle
    /\ StateIdle
    /\ SystemIdle
    /\ RetryIdle
    /\ memory_cache = <<>>
    /\ disk_cache = [k \in CacheKeys |-> NoFile]
    /\ cache_args \in CacheArgs
    /\ cache_now = 0
    /\ cache_last = NoCacheCall

\* _get_from_disk: what it returns and what it leaves in memory and on disk.
get_from_disk(cache, key) ==
    IF ~cache_args.enable_disk_cache \/ disk_cache[key] = NoFile
    THEN [result |-> Default, memory |-> cache, disk |-> disk_cache]
    ELSE IF cache_now - disk_cache[key].mtime > cache_args.ttl_seconds
    THEN [result |-> Default, memory |-> cache,
          disk |-> [disk_cache EXCEPT ![key] = NoFile]]
    ELSE [result |-> disk_cache[key].value,
          memory |-> add_to_memory_cache(cache, key, disk_cache[key].value, cache_now,
                                         cache_args.max_memory_items),
          disk |-> disk_cache]

\* get(key)
CacheGet(key) ==
    /\ LET got ==
             IF key \in KeysOf(memory_cache)
             THEN LET i == IndexOf(memory_cache, key)
                      entry == memory_cache[i]
                  IN IF cache_now - entry.timestamp > cache_args.ttl_seconds
                     THEN get_from_disk(Without(memory_cache, i), key)
                     ELSE [result |-> entry.value,
                           memory |-> Append(Without(memory_cache, i), entry),
                           disk |-> disk_cache]
             ELSE get_from_disk(memory_cache, key)
       IN /\ memory_cache' = got.memory
          /\ disk_cache' = got.disk
          /\ cache_last' = [op |-> "get", key |-> key, result |-> got.result,
                            used |-> IF got.result = Default THEN cache_last.used
                                     ELSE Used(cache_last.used, key)]
    /\ UNCHANGED <<cache_args, cache_now, rtvars>>
    /\ NotUtils

\* set(key, value), the value being the time of the call
CacheSet(key) ==
    /\ memory_cache' = add_to_memory_cache(memory_cache, key, cache_now, cache_now,
                                           cache_args.max_memory_items)
    /\ disk_cache' = IF cache_args.enable_disk_cache
                     THEN [disk_cache EXCEPT ![key] = [value |-> cache_now, mtime |-> cache_now]]
                     ELSE disk_cache
    /\ cache_last' = [op |-> "set", key |-> key, result |-> Default,
                      used |-> Used(cache_last.used, key)]
    /\ UNCHANGED <<cache_args, cache_now, rtvars>>
    /\ NotUtils

\* A second passes.
CacheTick ==
    /\ cache_now < MaxCacheClock
    /\ cache_now' = cache_now + 1
    /\ UNCHANGED <<memory_cache, disk_cache, cache_args, cache_last, rtvars>>
    /\ NotUtils

CacheNext ==
    \/ \E key \in CacheKeys : CacheGet(key)
    \/ \E key \in CacheKeys : CacheSet(key)
    \/ CacheTick

SpecCache == CacheInit /\ [][CacheNext]_vars

\* The cached key whose last use by get or set is the oldest.
PositionIn(used, key) == CHOOSE i \in 1..Len(used) : used[i] = key
LeastRecentlyUsed(cache, used) ==
    CHOOSE k \in KeysOf(cache) :
        \A j \in KeysOf(cache) : PositionIn(used, k) <= PositionIn(used, j)

\* C38: when the memory cache is full and a new key is stored, the entry
\* removed is the one least recently read by get or written by set; storing
\* under a key that is cached already removes no other entry.
C38_EvictsLeastRecentlyUsed ==
    [][\A key \in CacheKeys :
          CacheSet(key)
              => IF key \in KeysOf(memory_cache)
                 THEN KeysOf(memory_cache') = KeysOf(memory_cache)
                 ELSE IF Len(memory_cache) = cache_args.max_memory_items
                 THEN KeysOf(memory_cache') =
                         (KeysOf(memory_cache)
                             \ {LeastRecentlyUsed(memory_cache, cache_last.used)})
                         \cup {key}
                 ELSE KeysOf(memory_cache') = KeysOf(memory_cache) \cup {key}]_vars

\* C39: get never returns a value that set stored more than ttl_seconds ago.
C39_NothingOlderThanTtl ==
    [][\A key \in CacheKeys :
          (CacheGet(key) /\ cache_last'.result # Default)
              => cache_now - cache_last'.result <= cache_args.ttl_seconds]_vars

RECURSIVE Pow(_, _)
Pow(base, exponent) == IF exponent = 0 THEN 1 ELSE base * Pow(base, exponent - 1)

\* C31: the wrapper calls func at most max_retries + 1 times, returns the
\* result of the first call that succeeds without calling again, re-raises the
\* exception of the last call when all max_retries + 1 calls raise a listed
\* one, and sleeps min(initial_delay * backoff_factor^(k-1), max_delay) before
\* the k-th retry.
C31_RetryWithBackoff ==
    /\ call_count <= Max(retry_args.max_retries + 1, 0)
    /\ retry_result.how \in {"returned", "raised"} => retry_result.call = call_count
    /\ Len(sleeps) <= Max(retry_args.max_retries, 0)
    /\ \A k \in 1..Len(sleeps) :
          sleeps[k] = Min(retry_args.initial_delay * Pow(retry_args.backoff_factor, k - 1),
                          retry_args.max_delay)


====
